---- MODULE Spec2Model ----
(***************************************************************************)
(* Provenance trace and interactive reinterpretation subsystem of arete.   *)
(*                                                                         *)
(* Two independent parts share this module:                                *)
(*   - the alternative-lens interaction flow of the Discord bot            *)
(*     (packages/discord-bot/src/utils/response/provenanceInteractions.ts) *)
(*     with its process-wide session map and in-progress guard set;        *)
(*   - the trace read/write HTTP handlers of the backend                   *)
(*     (packages/backend/src/handlers/trace.ts) over the trace store.      *)
(*                                                                         *)
(* Nullable JavaScript values are modelled as sets with at most one        *)
(* element: Null is {} and Some(x) is {x}.  Texts are sequences of tokens, *)
(* a token being either the whitespace token or a run of visible text.     *)
(***************************************************************************)
EXTENDS Integers, Sequences, FiniteSets, TLC

VARIABLES
    sessions,                   \* Map<string, AlternativeLensSession>
    alternativeLensInProgress,  \* Set<string> of message ids
    submit                      \* handleAlternativeLensSubmit invocations, one per slot

lensVars == <<sessions, alternativeLensInProgress, submit>>

----------------------------------------------------------------------------
(* Optional values and texts *)

Null == {}
Some(x) == {x}
Get(o) == CHOOSE x \in o : TRUE

WS == " "

RECURSIVE TrimStart(_)
TrimStart(t) ==
    IF t = <<>> THEN <<>>
    ELSE IF Head(t) = WS THEN TrimStart(Tail(t)) ELSE t

RECURSIVE TrimEnd(_)
TrimEnd(t) ==
    IF t = <<>> THEN <<>>
    ELSE IF t[Len(t)] = WS THEN TrimEnd(SubSeq(t, 1, Len(t) - 1)) ELSE t

\* mutation: only leading whitespace is removed
Trim_start(t) == TrimStart(t)

\* String.prototype.trim
Trim(t) == TrimEnd(TrimStart(t))

\* Texts of length at most n over an alphabet of tokens
TextsUpTo(alphabet, n) == UNION {[1..k -> alphabet] : k \in 0..n}

----------------------------------------------------------------------------
(* Bounds of the lens model *)

MaxDescLen == 1

Users == {"u1", "u2"}
Msgs == {"m1", "m2"}
Handlers == {1, 2}

\* what a user can type into the modal's text field
ModalInputs == TextsUpTo({WS, "a"}, MaxDescLen)

\* the (user, message) pairs on which the initiating button is clicked
InitClicks == {<<"u1", "m1">>, <<"u2", "m1">>, <<"u1", "m2">>}

\* what recoverFullMessageText can return to Init (already trimmed)
RecoveredTexts == {<<>>, <<"reply">>}

\* what resolveProvenanceMetadata returns for the footer message: nothing,
\* or a response identifier with its trace
NoLookup == [responseId |-> Null, metadata |-> Null]
FoundLookup == [responseId |-> Some("response"), metadata |-> Some("metadata")]
MetadataLookups == {NoLookup}

----------------------------------------------------------------------------
(* Lens catalogue *)

LENS_DEFINITIONS ==
    << [key |-> "DANEEL", label |-> "Asimovian (Daneel character)",
        description |-> <<"Channel Daneel Olivaw: state clean facts, guard human welfare, and apply Zeroth Law judgment.">>,
        requiresCustomDescription |-> FALSE],
       [key |-> "UTILITARIAN", label |-> "Utilitarian",
        description |-> <<"Prioritise overall outcomes and collective wellbeing.">>,
        requiresCustomDescription |-> FALSE],
       [key |-> "DEONTOLOGICAL", label |-> "Deontological",
        description |-> <<"Emphasise duties, rules, and principled obligations.">>,
        requiresCustomDescription |-> FALSE],
       [key |-> "VIRTUE_ETHICS", label |-> "Virtue Ethics",
        description |-> <<"Highlight character, cultivation of virtues, and moral exemplars.">>,
        requiresCustomDescription |-> FALSE],
       [key |-> "EASTERN", label |-> "Eastern Philosophy",
        description |-> <<"Incorporate perspectives rooted in Confucian, Buddhist, or Daoist thought.">>,
        requiresCustomDescription |-> FALSE],
       [key |-> "CUSTOM", label |-> "Custom Lens",
        description |-> <<"Provide your own framing or perspective.">>,
        requiresCustomDescription |-> TRUE] >>

LensKeys == {LENS_DEFINITIONS[i].key : i \in 1..Len(LENS_DEFINITIONS)}

\* LENS_DEFINITIONS.find(lens => lens.key === key): Null when no entry matches
getAlternativeLensDefinition(key) ==
    LET hits == {i \in 1..Len(LENS_DEFINITIONS) : LENS_DEFINITIONS[i].key = key}
    IN  IF hits = {} THEN Null
        ELSE Some(LENS_DEFINITIONS[CHOOSE i \in hits : \A j \in hits : i <= j])

\* values the select-menu interactions of the model carry: a catalogue lens,
\* the custom lens, and a key that is no longer in the catalogue
SelectValues == {"UTILITARIAN", "CUSTOM", "RETIRED"}

----------------------------------------------------------------------------
(* Session lifecycle helpers *)

buildAlternativeLensSessionKey(userId, messageId) == <<userId, messageId>>

SessionKeys == {buildAlternativeLensSessionKey(u, m) : u \in Users, m \in Msgs}

getAlternativeLensSession(sessionKey) == sessions[sessionKey]

\* mutation: the guard is never found set
isAlternativeLensInProgress_unchecked(key) == FALSE

isAlternativeLensInProgress(key) == key \in alternativeLensInProgress

markAlternativeLensInProgress(set, key) == set \cup {key}

\* mutation: the entry is left in the set
clearAlternativeLensInProgress_kept(set, key) == set

clearAlternativeLensInProgress(set, key) == set \ {key}

\* mutation: a new session starts with the first catalogue lens selected
createAlternativeLensSession_preselected(map, sessionKey, context) ==
    [map EXCEPT ![sessionKey] =
        Some([context |-> context,
              selectedLensKey |-> Some("DANEEL"),
              customDescription |-> Null])]

createAlternativeLensSession(map, sessionKey, context) ==
    [map EXCEPT ![sessionKey] =
        Some([context |-> context,
              selectedLensKey |-> Null,
              customDescription |-> Null])]

\* mutation: sessions.clear() instead of sessions.delete(sessionKey)
clearAlternativeLensSession_all(map, sessionKey) == [k \in DOMAIN map |-> Null]

clearAlternativeLensSession(map, sessionKey) ==
    [map EXCEPT ![sessionKey] = Null]

\* mutation: selecting a catalogue lens keeps the custom description
setAlternativeLensSelection_keeping(map, sessionKey, lensKey) ==
    IF map[sessionKey] = Null THEN map
    ELSE [map EXCEPT ![sessionKey] =
            Some([Get(@) EXCEPT !.selectedLensKey = Some(lensKey)])]

\* mutation: the stored description also replaces the captured text
setAlternativeLensCustomDescription_overwriting(map, sessionKey, description) ==
    IF map[sessionKey] = Null THEN map
    ELSE [map EXCEPT ![sessionKey] =
            Some([Get(@) EXCEPT !.customDescription = Some(Trim(description)),
                                !.context.messageText = Trim(description)])]

\* mutation: a selection for a key without a session opens one
setAlternativeLensSelection_opening(map, sessionKey, lensKey) ==
    [map EXCEPT ![sessionKey] =
        Some([context |-> [messageText |-> <<>>, metadata |-> Null,
                           messageId |-> sessionKey[2], channelId |-> "channel",
                           responseId |-> Null],
              selectedLensKey |-> Some(lensKey),
              customDescription |-> IF @ = Null \/ lensKey # "CUSTOM" THEN Null
                                    ELSE Get(@).customDescription])]

setAlternativeLensSelection(map, sessionKey, lensKey) ==
    IF map[sessionKey] = Null THEN map
    ELSE [map EXCEPT ![sessionKey] =
            Some([Get(@) EXCEPT
                    !.selectedLensKey = Some(lensKey),
                    !.customDescription =
                        IF lensKey # "CUSTOM" THEN Null ELSE @])]

setAlternativeLensCustomDescription(map, sessionKey, description) ==
    IF map[sessionKey] = Null THEN map
    ELSE [map EXCEPT ![sessionKey] =
            Some([Get(@) EXCEPT !.customDescription = Some(Trim(description))])]

\* mutation: no stored text counts as present
Truthy_never(optText) == FALSE

\* JavaScript truthiness of a nullable text: null and the empty string are falsy
Truthy(optText) == optText # Null /\ Get(optText) # <<>>

\* mutation: the custom lens is accepted without a description
buildLensPayload_noCustomCheck(session) ==
    IF session.selectedLensKey = Null THEN Null
    ELSE LET definition == getAlternativeLensDefinition(Get(session.selectedLensKey))
         IN  IF definition = Null THEN Null
             ELSE Some([key |-> Get(definition).key,
                        label |-> Get(definition).label,
                        description |->
                            IF Get(definition).key = "CUSTOM"
                            THEN IF session.customDescription = Null THEN <<>>
                                 ELSE Get(session.customDescription)
                            ELSE Get(definition).description])

buildLensPayload(session) ==
    IF session.selectedLensKey = Null THEN Null
    ELSE LET definition == getAlternativeLensDefinition(Get(session.selectedLensKey))
         IN  IF definition = Null THEN Null
             ELSE IF Get(definition).key = "CUSTOM"
                  THEN IF ~Truthy(session.customDescription) THEN Null
                       ELSE Some([key |-> Get(definition).key,
                                  label |-> Get(definition).label,
                                  description |-> Get(session.customDescription)])
                  ELSE Some([key |-> Get(definition).key,
                             label |-> Get(definition).label,
                             description |-> Get(definition).description])

----------------------------------------------------------------------------
(* Interaction handlers of the lens flow.                                  *)
(*                                                                         *)
(* JavaScript runs each handler without preemption between two awaits, so  *)
(* every action below is one synchronous section of a handler followed by  *)
(* the await that ends it.  Init, Select and Modal-submit touch the shared *)
(* maps in a single synchronous section; Submit spans several.             *)

\* lens and context are the locals `lens` and `session.context` of a running
\* invocation: what it read from its session and hands to generation.
\* reinit is a history field: the initiating button was clicked again for this
\* invocation's (user, message) key after the invocation read its session
IdleHandler ==
    [pc |-> "idle", user |-> "", msg |-> "", lens |-> Null, context |-> Null,
     answer |-> "none", outcome |-> "none", threw |-> FALSE, reinit |-> FALSE]

\* no handler's promise has just settled: once a handler finishes, its slot is
\* released (SubmitReturn) before the event loop runs anything else
NoneDone == \A h \in Handlers : submit[h].pc # "done"

\* a Submit invocation that marked the guard and has not cleared it yet
HoldsGuard(h) == submit[h].pc \in {"ack", "gen", "catch"}

\* handleAlternativeLensButton: text is what recoverFullMessageText returned,
\* lookup is what resolveProvenanceMetadata returned
handleAlternativeLensButton(u, m, text, lookup) ==
    /\ IF text = <<>>
       THEN UNCHANGED <<sessions, submit>>
       ELSE LET sessionKey == buildAlternativeLensSessionKey(u, m)
                context == [messageText |-> text,
                            metadata |-> lookup.metadata,
                            messageId |-> m,
                            channelId |-> "channel",
                            responseId |-> lookup.responseId]
            IN  /\ sessions' = createAlternativeLensSession(
                                   clearAlternativeLensSession(sessions, sessionKey),
                                   sessionKey, context)
                /\ submit' = [h \in Handlers |->
                                IF /\ submit[h].pc \notin {"idle", "done"}
                                   /\ submit[h].user = u
                                   /\ submit[h].msg = m
                                THEN [submit[h] EXCEPT !.reinit = TRUE]
                                ELSE submit[h]]
    /\ UNCHANGED alternativeLensInProgress

\* handleAlternativeLensSelect: selected is values[0], Null when nothing was chosen
handleAlternativeLensSelect(u, m, selected) ==
    /\ IF selected = Null \/ getAlternativeLensDefinition(Get(selected)) = Null
       THEN UNCHANGED sessions
       ELSE sessions' = setAlternativeLensSelection(
                            sessions,
                            buildAlternativeLensSessionKey(u, m),
                            Get(getAlternativeLensDefinition(Get(selected))).key)
    /\ UNCHANGED <<alternativeLensInProgress, submit>>

\* handleAlternativeLensModal: input is the raw value of the description field
handleAlternativeLensModal(u, m, input) ==
    LET sessionKey == buildAlternativeLensSessionKey(u, m)
        description == Trim(input)
    IN  /\ IF getAlternativeLensSession(sessionKey) = Null \/ description = <<>>
           THEN UNCHANGED sessions
           ELSE sessions' = setAlternativeLensCustomDescription(
                                setAlternativeLensSelection(sessions, sessionKey, "CUSTOM"),
                                sessionKey, description)
        /\ UNCHANGED <<alternativeLensInProgress, submit>>

\* the finally block of handleAlternativeLensSubmit
SubmitFinally(h) ==
    /\ sessions' = clearAlternativeLensSession(
                      sessions,
                      buildAlternativeLensSessionKey(submit[h].user, submit[h].msg))
    /\ alternativeLensInProgress' =
          clearAlternativeLensInProgress(alternativeLensInProgress, submit[h].msg)

\* a rejected Submit: one ephemeral reply, which may itself fail, then return
SubmitReject(h, u, m, answer, replyThrows) ==
    submit' = [submit EXCEPT ![h] =
                  [pc |-> "done", user |-> u, msg |-> m, lens |-> Null,
                   context |-> Null,
                   answer |-> answer, outcome |-> "rejected",
                   threw |-> replyThrows, reinit |-> FALSE]]

\* mutation: the in-progress guard is tested before the session is read
SubmitStart_guardFirst(h, u, m, replyThrows) ==
    LET sessionKey == buildAlternativeLensSessionKey(u, m)
        session == getAlternativeLensSession(sessionKey)
    IN  /\ submit[h].pc = "idle"
        /\ \A g \in Handlers : g < h => submit[g].pc # "idle"
        /\ IF isAlternativeLensInProgress(m)
           THEN /\ SubmitReject(h, u, m, "already_generating", replyThrows)
                /\ UNCHANGED <<sessions, alternativeLensInProgress>>
           ELSE IF session = Null
           THEN /\ SubmitReject(h, u, m, "session_expired", replyThrows)
                /\ UNCHANGED <<sessions, alternativeLensInProgress>>
           ELSE IF Get(session).context.messageText = <<>>
           THEN /\ sessions' = clearAlternativeLensSession(sessions, sessionKey)
                /\ SubmitReject(h, u, m, "missing_text", replyThrows)
                /\ UNCHANGED alternativeLensInProgress
           ELSE IF buildLensPayload(Get(session)) = Null
           THEN /\ SubmitReject(h, u, m, "select_lens_first", replyThrows)
                /\ UNCHANGED <<sessions, alternativeLensInProgress>>
           ELSE /\ replyThrows = FALSE
                /\ alternativeLensInProgress' =
                      markAlternativeLensInProgress(alternativeLensInProgress, m)
                /\ submit' = [submit EXCEPT ![h] =
                                [pc |-> "ack", user |-> u, msg |-> m,
                                 lens |-> buildLensPayload(Get(session)),
                                 context |-> Some(Get(session).context),
                                 answer |-> "progress", outcome |-> "none",
                                 threw |-> FALSE, reinit |-> FALSE]]
                /\ UNCHANGED sessions

\* handleAlternativeLensSubmit up to its first await
SubmitStart(h, u, m, replyThrows) ==
    LET sessionKey == buildAlternativeLensSessionKey(u, m)
        session == getAlternativeLensSession(sessionKey)
    IN  /\ submit[h].pc = "idle"
        /\ \A g \in Handlers : g < h => submit[g].pc # "idle"
        /\ IF session = Null
           THEN /\ SubmitReject(h, u, m, "session_expired", replyThrows)
                /\ UNCHANGED <<sessions, alternativeLensInProgress>>
           ELSE IF Get(session).context.messageText = <<>>
           THEN /\ sessions' = clearAlternativeLensSession(sessions, sessionKey)
                /\ SubmitReject(h, u, m, "missing_text", replyThrows)
                /\ UNCHANGED alternativeLensInProgress
           ELSE IF buildLensPayload(Get(session)) = Null
           THEN /\ SubmitReject(h, u, m, "select_lens_first", replyThrows)
                /\ UNCHANGED <<sessions, alternativeLensInProgress>>
           ELSE IF isAlternativeLensInProgress(m)
           THEN /\ SubmitReject(h, u, m, "already_generating", replyThrows)
                /\ UNCHANGED <<sessions, alternativeLensInProgress>>
           ELSE /\ replyThrows = FALSE
                /\ alternativeLensInProgress' =
                      markAlternativeLensInProgress(alternativeLensInProgress, m)
                /\ submit' = [submit EXCEPT ![h] =
                                [pc |-> "ack", user |-> u, msg |-> m,
                                 lens |-> buildLensPayload(Get(session)),
                                 context |-> Some(Get(session).context),
                                 answer |-> "progress", outcome |-> "none",
                                 threw |-> FALSE, reinit |-> FALSE]]
                /\ UNCHANGED sessions

\* the in-progress acknowledgment was delivered: enter the try block
SubmitAckOk(h) ==
    /\ submit[h].pc = "ack"
    /\ submit' = [submit EXCEPT ![h].pc = "gen"]
    /\ UNCHANGED <<sessions, alternativeLensInProgress>>

\* the in-progress acknowledgment failed: clear the guard, follow up unless
\* the interaction counts as replied, return
SubmitAckFail(h, replied) ==
    /\ submit[h].pc = "ack"
    /\ alternativeLensInProgress' =
          clearAlternativeLensInProgress(alternativeLensInProgress, submit[h].msg)
    /\ submit' = [submit EXCEPT ![h].pc = IF replied THEN "done" ELSE "followup",
                                 ![h].lens = Null,
                                 ![h].context = Null,
                                 ![h].outcome = "ack_failed"]
    /\ UNCHANGED sessions

\* the follow-up after a failed acknowledgment settled (its failure is swallowed)
SubmitFollowUpSettled(h) ==
    /\ submit[h].pc = "followup"
    /\ submit' = [submit EXCEPT ![h].pc = "done"]
    /\ UNCHANGED <<sessions, alternativeLensInProgress>>

\* the try block ran to its end: the text was generated and either posted
\* (editReply of the completion summary included) or, the channel not being
\* sendable, reported as not postable; the finally block runs
SubmitTryCompleted(h, sendable) ==
    /\ submit[h].pc = "gen"
    /\ submit' = [submit EXCEPT ![h].pc = "done",
                                 ![h].lens = Null,
                                 ![h].context = Null,
                                 ![h].outcome = IF sendable THEN "posted"
                                                ELSE "unsendable"]
    /\ SubmitFinally(h)

\* generateAlternativeLensMessage or a platform call of the try block threw:
\* the catch block edits the acknowledgment into a failure notice
SubmitTryThrew(h) ==
    /\ submit[h].pc = "gen"
    /\ submit' = [submit EXCEPT ![h].pc = "catch"]
    /\ UNCHANGED <<sessions, alternativeLensInProgress>>

\* the failure notice of the catch block settled; finally runs either way and
\* a failure of the notice leaves the handler by an exception
SubmitCatchSettled(h, noticeThrows) ==
    /\ submit[h].pc = "catch"
    /\ submit' = [submit EXCEPT ![h].pc = "done",
                                 ![h].lens = Null,
                                 ![h].context = Null,
                                 ![h].outcome = "failed",
                                 ![h].threw = noticeThrows]
    /\ SubmitFinally(h)

\* the invocation is over; the slot serves the next Submit click
SubmitReturn(h) ==
    /\ submit[h].pc = "done"
    /\ submit' = [submit EXCEPT ![h] = IdleHandler]
    /\ UNCHANGED <<sessions, alternativeLensInProgress>>

----------------------------------------------------------------------------
(* JSON values and the zod schemas of the trace contract.                   *)
(*                                                                         *)
(* A JSON value is a record [t, v]: t is its JavaScript type and v its      *)
(* content.  Numbers are counted in tenths (8 stands for 0.8).  A string    *)
(* holds an atomic text, except a response identifier, which is a sequence  *)
(* of characters because the client percent-encodes it character by        *)
(* character.  An object's content is a function from its keys to values.   *)

JString(s) == [t |-> "string", v |-> s]
JNumber(tenths) == [t |-> "number", v |-> tenths]
JArray(items) == [t |-> "array", v |-> items]
JObject(fields) == [t |-> "object", v |-> fields]
Undefined == [t |-> "undefined", v |-> <<>>]

Keys(o) == DOMAIN o.v
Field(o, k) == IF o.t = "object" /\ k \in Keys(o) THEN o.v[k] ELSE Undefined

Issue(path, code) == [path |-> path, code |-> code]
NoIssues == <<>>

\* the texts `new URL(text)` accepts, among the texts of the modelled payloads
UrlTexts == {"https://example.com/article"}

zString(x, path) ==
    IF x.t # "string" THEN <<Issue(path, "invalid_type")>> ELSE NoIssues

zStringMin1(x, path) ==
    IF x.t # "string" THEN <<Issue(path, "invalid_type")>>
    ELSE IF Len(x.v) < 1 THEN <<Issue(path, "too_small")>>
    ELSE NoIssues

zStringUrl(x, path) ==
    IF x.t # "string" THEN <<Issue(path, "invalid_type")>>
    ELSE IF x.v \notin UrlTexts THEN <<Issue(path, "invalid_string")>>
    ELSE NoIssues

zEnum(x, values, path) ==
    IF x.t # "string" THEN <<Issue(path, "invalid_type")>>
    ELSE IF x.v \notin values THEN <<Issue(path, "invalid_enum_value")>>
    ELSE NoIssues

ProvenanceSchema(x, path) == zEnum(x, {"Retrieved", "Inferred", "Speculative"}, path)
RiskTierSchema(x, path) == zEnum(x, {"Low", "Medium", "High"}, path)

\* z.number().min(0).max(1), in tenths
zConfidence(x, path) ==
    IF x.t # "number" THEN <<Issue(path, "invalid_type")>>
    ELSE (IF x.v < 0 THEN <<Issue(path, "too_small")>> ELSE NoIssues)
         \o (IF x.v > 10 THEN <<Issue(path, "too_big")>> ELSE NoIssues)

\* z.number().nonnegative(): any number >= 0, whole or not
zNonnegative(x, path) ==
    IF x.t # "number" THEN <<Issue(path, "invalid_type")>>
    ELSE IF x.v < 0 THEN <<Issue(path, "too_small")>>
    ELSE NoIssues

RECURSIVE Concat(_)
Concat(seqs) == IF seqs = <<>> THEN <<>> ELSE Head(seqs) \o Concat(Tail(seqs))

\* zod reports the issues of the shape's keys in the order of the shape and
\* the unrecognized keys of a strict object last
UnrecognizedKeys(x, shapeKeys, path) ==
    IF Keys(x) \subseteq shapeKeys THEN NoIssues
    ELSE <<Issue(path, "unrecognized_keys")>>

CitationKeys == {"title", "url", "snippet"}

CitationSchema(x, path) ==
    IF x.t # "object" THEN <<Issue(path, "invalid_type")>>
    ELSE zString(Field(x, "title"), path \o <<"title">>)
         \o zStringUrl(Field(x, "url"), path \o <<"url">>)
         \o (IF "snippet" \in Keys(x)
             THEN zString(Field(x, "snippet"), path \o <<"snippet">>)
             ELSE NoIssues)
         \o UnrecognizedKeys(x, CitationKeys, path)

zCitations(x, path) ==
    IF x.t # "array" THEN <<Issue(path, "invalid_type")>>
    ELSE Concat([i \in 1..Len(x.v) |->
                    CitationSchema(x.v[i], path \o <<ToString(i - 1)>>)])

zImageDescriptions(x, path) ==
    IF x.t = "undefined" THEN NoIssues
    ELSE IF x.t # "array" THEN <<Issue(path, "invalid_type")>>
    ELSE Concat([i \in 1..Len(x.v) |->
                    zString(x.v[i], path \o <<ToString(i - 1)>>)])

responseMetadataKeys ==
    {"responseId", "provenance", "confidence", "riskTier", "tradeoffCount",
     "chainHash", "licenseContext", "modelVersion", "staleAfter", "citations",
     "imageDescriptions"}

responseMetadataShape(x) ==
    zStringMin1(Field(x, "responseId"), <<"responseId">>)
    \o ProvenanceSchema(Field(x, "provenance"), <<"provenance">>)
    \o zConfidence(Field(x, "confidence"), <<"confidence">>)
    \o RiskTierSchema(Field(x, "riskTier"), <<"riskTier">>)
    \o zNonnegative(Field(x, "tradeoffCount"), <<"tradeoffCount">>)
    \o zString(Field(x, "chainHash"), <<"chainHash">>)
    \o zString(Field(x, "licenseContext"), <<"licenseContext">>)
    \o zString(Field(x, "modelVersion"), <<"modelVersion">>)
    \o zString(Field(x, "staleAfter"), <<"staleAfter">>)
    \o zCitations(Field(x, "citations"), <<"citations">>)
    \o zImageDescriptions(Field(x, "imageDescriptions"), <<"imageDescriptions">>)

\* mutation: the read schema refuses unknown keys as the write schema does
ResponseMetadataIssues_strict(x) ==
    IF x.t # "object" THEN <<Issue(<<>>, "invalid_type")>>
    ELSE responseMetadataShape(x) \o UnrecognizedKeys(x, responseMetadataKeys, <<>>)

\* z.object(responseMetadataShape).passthrough(): unknown keys are kept
ResponseMetadataIssues(x) ==
    IF x.t # "object" THEN <<Issue(<<>>, "invalid_type")>>
    ELSE responseMetadataShape(x)

\* z.object(responseMetadataShape).strict(): unknown keys are an issue
PostTracesRequestIssues_tolerant(x) == ResponseMetadataIssues(x)

PostTracesRequestIssues(x) ==
    IF x.t # "object" THEN <<Issue(<<>>, "invalid_type")>>
    ELSE responseMetadataShape(x) \o UnrecognizedKeys(x, responseMetadataKeys, <<>>)

SafeParse(x, issues) ==
    [success |-> issues = NoIssues, data |-> x, issues |-> issues]

ResponseMetadataSchema(x) == SafeParse(x, ResponseMetadataIssues(x))
PostTracesRequestSchema(x) == SafeParse(x, PostTracesRequestIssues(x))
----------------------------------------------------------------------------
(* Trace store, clock and handler dependencies *)

VARIABLES
    deps,       \* TraceHandlerDeps injected into createTraceHandlers
    records,    \* content of the trace store: stored key -> metadata
    now,        \* wall clock read by `new Date()`, in milliseconds
    staleSeen,  \* keys answered 410 since their last store write
    exchange    \* the HTTP exchange, pipeline call or Discord interaction that
                \* just completed

traceVars == <<deps, records, now, staleSeen, exchange>>

MaxNow == 2
MaxTraceBodyBytes == 3

\* response identifiers, as sequences of characters
ResponseIds == {<<"r", "1">>, <<"a", " ", "b">>}

\* encodeURIComponent leaves the unreserved characters alone and replaces
\* every other character by the percent-encoding of its UTF-8 bytes
UriUnreserved ==
    {"a", "b", "r", "1", "-", "_", ".", "!", "~", "*", "'", "(", ")"}

PercentEncode(c) ==
    CASE c = " " -> <<"%", "2", "0">>
      [] c = "%" -> <<"%", "2", "5">>
      [] c = "/" -> <<"%", "2", "F">>

encodeURIComponent(s) ==
    Concat([i \in 1..Len(s) |->
               IF s[i] \in UriUnreserved THEN <<s[i]>> ELSE PercentEncode(s[i])])

\* ISO-8601 texts of the instants 0, 1, 2, ... ms after the epoch
IsoInstants ==
    <<"1970-01-01T00:00:00.000Z", "1970-01-01T00:00:00.001Z",
      "1970-01-01T00:00:00.002Z", "1970-01-01T00:00:00.003Z">>

\* new Date(text).getTime(): the instant, or Null for NaN
DateParse(text) ==
    IF \E i \in 1..Len(IsoInstants) : IsoInstants[i] = text
    THEN Some((CHOOSE i \in 1..Len(IsoInstants) : IsoInstants[i] = text) - 1)
    ELSE Null

getStaleAfterDate(metadata) ==
    LET staleAfter == IF Field(metadata, "staleAfter").t = "string"
                      THEN Some(Field(metadata, "staleAfter").v)
                      ELSE Null
    IN  IF staleAfter = Null \/ Get(staleAfter) = "" THEN Null
        ELSE DateParse(Get(staleAfter))

isStale_inclusive(metadata, clock) ==
    LET staleAfterDate == getStaleAfterDate(metadata)
    IN  staleAfterDate # Null /\ Get(staleAfterDate) <= clock

\* staleAfterDate && staleAfterDate < new Date()
isStale(metadata, clock) ==
    LET staleAfterDate == getStaleAfterDate(metadata)
    IN  staleAfterDate # Null /\ Get(staleAfterDate) < clock

\* TraceStore.retrieve: the stored record or the not-found signal
traceStoreRetrieve(store, responseId) ==
    IF responseId \in DOMAIN store THEN store[responseId] ELSE Null

\* TraceStore.upsert: store or overwrite by responseId
traceStoreUpsert(store, metadata) ==
    LET responseId == Field(metadata, "responseId").v
    IN  [k \in DOMAIN store \cup {responseId} |->
            IF k = responseId THEN Some(metadata) ELSE store[k]]

readTraceMetadata_errorAsMissing(store, responseId, retrieveThrows) ==
    IF retrieveThrows \/ traceStoreRetrieve(store, responseId) = Null
    THEN [status |-> "not-found", metadata |-> Null]
    ELSE [status |-> "found", metadata |-> traceStoreRetrieve(store, responseId)]

readTraceMetadata(store, responseId, retrieveThrows) ==
    IF retrieveThrows THEN [status |-> "error", metadata |-> Null]
    ELSE IF traceStoreRetrieve(store, responseId) = Null
         THEN [status |-> "not-found", metadata |-> Null]
         ELSE [status |-> "found", metadata |-> traceStoreRetrieve(store, responseId)]

----------------------------------------------------------------------------
(* Responses *)

ErrorBody(message) ==
    [shape |-> "error", text |-> message, details |-> Null,
     responseId |-> Null, metadata |-> Null]

InvalidBody(message, firstIssue) ==
    [shape |-> "error", text |-> message, details |-> Some(firstIssue),
     responseId |-> Null, metadata |-> Null]

AckBody(responseId) ==
    [shape |-> "ack", text |-> "", details |-> Null,
     responseId |-> Some(responseId), metadata |-> Null]

MetadataBody_knownOnly(metadata) ==
    [shape |-> "metadata", text |-> "", details |-> Null, responseId |-> Null,
     metadata |-> Some(JObject([k \in Keys(metadata) \cap responseMetadataKeys |->
                                  metadata.v[k]]))]

\* sendJson(res, 200, metadata): the stored record is the body
MetadataBody(metadata) ==
    [shape |-> "metadata", text |-> "", details |-> Null,
     responseId |-> Null, metadata |-> Some(metadata)]

StaleBody(metadata) ==
    [shape |-> "stale", text |-> "Trace is stale", details |-> Null,
     responseId |-> Null, metadata |-> Some(metadata)]

\* one call of sendJson: status, serialized payload, extra headers
sendJson(statusCode, payload, extraHeaders) ==
    [status |-> statusCode, body |-> payload, headers |-> extraHeaders]

NoExchange == [kind |-> "none"]

Idle == exchange.kind = "none"
----------------------------------------------------------------------------
(* Requests *)

DigitChars == <<"0", "1", "2", "3", "4", "5", "6", "7", "8", "9">>

RECURSIVE ToDecimal(_)
ToDecimal(n) ==
    IF n < 10 THEN <<DigitChars[n + 1]>>
    ELSE ToDecimal(n \div 10) \o <<DigitChars[(n % 10) + 1]>>

IsDigit(c) == \E i \in 1..Len(DigitChars) : DigitChars[i] = c
DigitValue(c) == (CHOOSE i \in 1..Len(DigitChars) : DigitChars[i] = c) - 1

RECURSIVE ParseDecimal(_)
ParseDecimal(s) ==
    IF s = <<>> THEN 0
    ELSE ParseDecimal(SubSeq(s, 1, Len(s) - 1)) * 10 + DigitValue(s[Len(s)])

\* Number(text) of a header text: its value, or Null for NaN
NumberOf(s) ==
    IF \A i \in 1..Len(s) : IsDigit(s[i]) THEN Some(ParseDecimal(s)) ELSE Null

Metadata(responseId, staleAfter) ==
    JObject(("responseId" :> JString(responseId))
         @@ ("provenance" :> JString("Retrieved"))
         @@ ("confidence" :> JNumber(8))
         @@ ("riskTier" :> JString("Low"))
         @@ ("tradeoffCount" :> JNumber(20))
         @@ ("chainHash" :> JString("hash_abc"))
         @@ ("licenseContext" :> JString("MIT + HL3"))
         @@ ("modelVersion" :> JString("gpt-5"))
         @@ ("staleAfter" :> JString(staleAfter))
         @@ ("citations" :> JArray(<<JObject(
                ("title" :> JString("Example source"))
             @@ ("url" :> JString("https://example.com/article")))>>)))

With(o, k, x) == JObject((k :> x) @@ o.v)
Without(o, k) == JObject([j \in Keys(o) \ {k} |-> o.v[j]])

NotADate == "not-a-date"
BaseMetadata == Metadata(<<"r", "1">>, IsoInstants[2])

\* payloads PostTracesRequestSchema accepts
AcceptablePayloads ==
    {BaseMetadata,
     Metadata(<<"r", "1">>, NotADate),
     Metadata(<<"r", "1">>, ""),
     Metadata(<<"a", " ", "b">>, IsoInstants[2])}

\* valid metadata carrying a field the schema does not know
ForwardCompatible == With(BaseMetadata, "futureField", JString("future-backend"))

RejectedPayloads ==
    {ForwardCompatible,
     Without(BaseMetadata, "responseId"),
     With(BaseMetadata, "responseId", JString(<<>>)),
     With(BaseMetadata, "confidence", JNumber(12)),
     With(BaseMetadata, "citations", JArray(<<JObject(
            ("title" :> JString("Example source"))
         @@ ("url" :> JString("not a url")))>>)),
     JArray(<<>>)}

WritePayloads == AcceptablePayloads \cup RejectedPayloads

EmptyText == [kind |-> "empty", value |-> Undefined]
GarbageText == [kind |-> "garbage", value |-> Undefined]
JsonText(value) == [kind |-> "json", value |-> value]

\* a request body: its text and the lengths of the chunks it arrives in
Body(content, chunks) == [content |-> content, chunks |-> chunks]

RECURSIVE SumOf(_)
SumOf(s) == IF s = <<>> THEN 0 ELSE Head(s) + SumOf(Tail(s))

Bodies ==
    {Body(EmptyText, <<>>), Body(GarbageText, <<1>>)}
    \cup {Body(JsonText(p), <<MaxTraceBodyBytes>>) : p \in WritePayloads}
    \cup {Body(JsonText(BaseMetadata), c) :
            c \in {<<MaxTraceBodyBytes + 1>>, <<MaxTraceBodyBytes, 1>>}}

TraceSecret == "secret"
Tokens == {Null, Some(TraceSecret), Some("guess")}

\* the header the write handler reads the shared secret from
TRACE_TOKEN_HEADER == "x-arete-trace-token"

\* header names as a client writes them and as node's parser hands them to
\* the handler (lower-cased)
LowerCase(name) ==
    CASE name = "X-Trace-Token" -> "x-trace-token"
      [] name = "X-Arete-Trace-Token" -> "x-arete-trace-token"
      [] name = "Content-Length" -> "content-length"
      [] name = "X-Forwarded-For" -> "x-forwarded-for"
      [] OTHER -> name

\* a header of the request when value is present, no header otherwise
HeaderLine(name, value) == IF value = Null THEN <<>> ELSE name :> Get(value)

\* req.headers of the request a client sent with these headers
IncomingHeaders(sent) ==
    [n \in {LowerCase(k) : k \in DOMAIN sent} |->
        sent[CHOOSE k \in DOMAIN sent : LowerCase(k) = n]]

\* req.headers[name]
Header(req, name) ==
    IF name \in DOMAIN req.headers THEN Some(req.headers[name]) ELSE Null

\* the IncomingMessage of a request: method, headers, socket, body stream
IncomingMessage(method, sent, remoteAddress, body) ==
    [method |-> method, headers |-> IncomingHeaders(sent),
     socket |-> [remoteAddress |-> remoteAddress], body |-> body]

DirectAddress == <<"10.0.0.1">>

\* a request carries either a truthful Content-Length or none (chunked)
WriteRequests ==
    {IncomingMessage(m,
                     HeaderLine("X-Arete-Trace-Token", t)
                     @@ HeaderLine("Content-Length",
                                   IF declared THEN Some(ToDecimal(SumOf(b.chunks)))
                                   ELSE Null),
                     Some(DirectAddress), b) :
        m \in {"POST", "GET"}, t \in Tokens, b \in Bodies, declared \in BOOLEAN}

\* what traceWriteLimiter.check returns: the request is admitted, or refused
\* with the number of seconds to wait
RateLimitResults ==
    {[allowed |-> TRUE, retryAfter |-> 0],
     [allowed |-> FALSE, retryAfter |-> 1],
     [allowed |-> FALSE, retryAfter |-> 12]}

Pathname(segments, trailingSlash) ==
    [prefix |-> <<"api", "traces">>, segments |-> segments,
     trailingSlash |-> trailingSlash]

\* createTraceApi.getTrace: GET /api/traces/{encodeURIComponent(responseId)}
getTrace(responseId) ==
    [asked |-> Some(responseId),
     pathname |-> Pathname(<<encodeURIComponent(responseId)>>, FALSE)]

ReadRequests ==
    {getTrace(r) : r \in ResponseIds}
    \cup {[asked |-> Null, pathname |-> p] :
            p \in {Pathname(<<>>, TRUE),
                   Pathname(<<<<"r", "1">>>>, TRUE),
                   Pathname(<<<<"r", "1">>, <<"a">>>>, FALSE)}}

StoreTracePayloads ==
    {ForwardCompatible,
     Without(BaseMetadata, "staleAfter"),
     With(BaseMetadata, "responseId", JString(<<>>))}

DepsConfigs ==
    [traceStore : BOOLEAN, traceToken : {Null, Some(TraceSecret)},
     traceWriteLimiter : BOOLEAN, maxTraceBodyBytes : {MaxTraceBodyBytes},
     trustProxy : {FALSE}]

WorkingDeps ==
    [traceStore |-> TRUE, traceToken |-> Some(TraceSecret),
     traceWriteLimiter |-> TRUE, maxTraceBodyBytes |-> MaxTraceBodyBytes,
     trustProxy |-> FALSE]

----------------------------------------------------------------------------
(* Handlers *)

\* parsedUrl.pathname.match(/^\/api\/traces\/([^/]+)\/?$/)
pathMatch(pathname) ==
    IF /\ pathname.prefix = <<"api", "traces">>
       /\ Len(pathname.segments) = 1
       /\ Len(pathname.segments[1]) >= 1
    THEN Some(pathname.segments[1])
    ELSE Null

\* The record of a completed exchange.  Besides the request and the calls of
\* sendJson it keeps what the environment did: the limiter's verdict when it
\* was consulted, the argument of the store's upsert when it was called,
\* whether the store call raised, the record held under the written key
\* before the write, and whether the key read had already been answered 410.
Exchange(kind, req, sent, limiter, upsertArg, threw, before, wasStale, settled) ==
    [kind |-> kind, req |-> req, sent |-> sent, limiter |-> limiter,
     upsert |-> upsertArg, threw |-> threw, before |-> before,
     wasStale |-> wasStale, settled |-> settled]

ReadDone(req, response, threw) ==
    LET responseId == pathMatch(req.pathname)
    IN  /\ exchange' = Exchange("read", req, <<response>>, Null, Null, threw, Null,
                                responseId # Null /\ responseId \subseteq staleSeen,
                                TRUE)
        /\ staleSeen' = IF response.status = 410 THEN staleSeen \cup responseId
                        ELSE staleSeen
        /\ UNCHANGED <<deps, records, now>>

handleTraceRequest(req, retrieveThrows) ==
    LET responseId == pathMatch(req.pathname)
        readResult == readTraceMetadata(records, Get(responseId), retrieveThrows)
        metadata == Get(readResult.metadata)
    IN  /\ Idle
        /\ IF responseId = Null
           THEN ReadDone(req, sendJson(400, ErrorBody("Invalid trace request format"), {}),
                         FALSE)
           ELSE IF ~deps.traceStore
           THEN ReadDone(req, sendJson(503, ErrorBody("Trace store unavailable"), {}),
                         FALSE)
           ELSE IF readResult.status = "not-found"
           THEN ReadDone(req, sendJson(404, ErrorBody("Trace not found"), {}),
                         retrieveThrows)
           ELSE IF readResult.status = "error"
           THEN ReadDone(req, sendJson(500, ErrorBody("Failed to read trace"), {}),
                         retrieveThrows)
           ELSE IF isStale(metadata, now)
           THEN ReadDone(req, sendJson(410, StaleBody(metadata), {}), retrieveThrows)
           ELSE ReadDone(req, sendJson(200, MetadataBody(metadata), {}), retrieveThrows)

\* text.split(',')[0]
RECURSIVE FirstEntry(_)
FirstEntry(text) ==
    IF text = <<>> \/ Head(text) = "," THEN <<>>
    ELSE <<Head(text)>> \o FirstEntry(Tail(text))

\* mutation: the forwarded header is honoured whatever trustProxy says
getClientIp_forwarded(req, trustProxy) ==
    LET remoteAddress == req.socket.remoteAddress
        forwardedFor == Header(req, "x-forwarded-for")
        clientIp ==
            IF forwardedFor # Null /\ Get(forwardedFor) # <<>>
            THEN Trim(FirstEntry(Get(forwardedFor)))
            ELSE IF remoteAddress = Null THEN <<"unknown">>
                 ELSE Get(remoteAddress)
    IN  IF clientIp # <<>> /\ Head(clientIp) = "::ffff:" THEN Tail(clientIp)
        ELSE clientIp

\* the address a request is rate-limited and logged under
getClientIp(req, trustProxy) ==
    LET remoteAddress == req.socket.remoteAddress
        forwardedFor == Header(req, "x-forwarded-for")
        clientIp ==
            IF trustProxy /\ forwardedFor # Null /\ Get(forwardedFor) # <<>>
            THEN Trim(FirstEntry(Get(forwardedFor)))
            ELSE IF remoteAddress = Null \/ Get(remoteAddress) = <<>>
                 THEN <<"unknown">>
                 ELSE Get(remoteAddress)
    IN  IF clientIp # <<>> /\ Head(clientIp) = "::ffff:" THEN Tail(clientIp)
        ELSE clientIp

\* the body of the 429 answer
LimitedBody(retryAfter) ==
    [shape |-> "error", text |-> "Too many trace writes", details |-> Null,
     responseId |-> Null, metadata |-> Null, retryAfter |-> retryAfter]

\* mutation: the byte count is never compared with the cap
ReceiveData_uncapped(chunks, bodyBytes, limit) ==
    [bodyTooLarge |-> FALSE, bodyBytes |-> bodyBytes + SumOf(chunks)]

\* the 'data' listener: count the bytes, stop at the first chunk over the cap
RECURSIVE ReceiveData(_, _, _)
ReceiveData(chunks, bodyBytes, limit) ==
    IF chunks = <<>> THEN [bodyTooLarge |-> FALSE, bodyBytes |-> bodyBytes]
    ELSE IF bodyBytes + Head(chunks) > limit
         THEN [bodyTooLarge |-> TRUE, bodyBytes |-> bodyBytes + Head(chunks)]
         ELSE ReceiveData(Tail(chunks), bodyBytes + Head(chunks), limit)

\* a write exchange that ended before the store was called
Rejected(req, sent, limiter, settled) ==
    /\ exchange' = Exchange("write", req, sent, limiter, Null, FALSE, Null, FALSE,
                            settled)
    /\ UNCHANGED <<deps, records, now, staleSeen>>

Reply(req, limiter, statusCode, message) ==
    Rejected(req, <<sendJson(statusCode, ErrorBody(message), {})>>, limiter, TRUE)

\* await traceStore.upsert(metadata), which raises or stores
Upserted(kind, req, limiter, metadata, upsertThrows, sent) ==
    LET responseId == Field(metadata, "responseId").v
    IN  /\ exchange' = Exchange(kind, req, sent, limiter, Some(metadata), upsertThrows,
                                traceStoreRetrieve(records, responseId), FALSE, TRUE)
        /\ records' = IF upsertThrows THEN records
                      ELSE traceStoreUpsert(records, metadata)
        /\ staleSeen' = IF upsertThrows THEN staleSeen ELSE staleSeen \ {responseId}
        /\ UNCHANGED <<deps, now>>

tokenMatches_any(providedValue, traceToken) == TRUE

\* String(providedValue) !== traceToken
tokenMatches(providedValue, traceToken) == providedValue = traceToken

\* mutation: the limiter is consulted before the token is looked at
handleTraceUpsertRequest_limiterFirst(req, rateLimitResult, upsertThrows, destroyEmitsError) ==
    LET providedValue == Header(req, TRACE_TOKEN_HEADER)
        clientIp == getClientIp(req, deps.trustProxy)
        contentLengthHeader == Header(req, "content-length")
        contentLength == IF contentLengthHeader = Null \/ Get(contentLengthHeader) = <<>>
                         THEN Null
                         ELSE NumberOf(Get(contentLengthHeader))
        received == ReceiveData(req.body.chunks, 0, deps.maxTraceBodyBytes)
        body == req.body.content
        parsedPayload == PostTracesRequestSchema(body.value)
        missingResponseId ==
            \E i \in 1..Len(parsedPayload.issues) :
                /\ parsedPayload.issues[i].path = <<"responseId">>
                /\ parsedPayload.issues[i].code = "invalid_type"
        normalizedMetadata == parsedPayload.data
        responseId == Field(normalizedMetadata, "responseId").v
        tooLarge == sendJson(413, ErrorBody("Trace payload too large"), {})
        failed == sendJson(500, ErrorBody("Failed to store trace"), {})
        admitted == Some([key |-> clientIp, result |-> rateLimitResult])
    IN  /\ Idle
        /\ IF req.method # "POST"
           THEN Reply(req, Null, 405, "Method not allowed")
           ELSE IF ~deps.traceStore
           THEN Reply(req, Null, 503, "Trace store unavailable")
           ELSE IF deps.traceToken = Null
           THEN Reply(req, Null, 503, "Trace ingestion not configured")
           ELSE IF ~deps.traceWriteLimiter
           THEN Reply(req, Null, 503, "Trace rate limiter unavailable")
           ELSE IF ~rateLimitResult.allowed   \* traceWriteLimiter.check(clientIp)
           THEN Rejected(req,
                         <<sendJson(429, LimitedBody(rateLimitResult.retryAfter),
                                    {<<"Retry-After",
                                       ToDecimal(rateLimitResult.retryAfter)>>})>>,
                         admitted, TRUE)
           ELSE IF providedValue = Null \/ Get(providedValue) = ""
           THEN Reply(req, admitted, 401, "Missing trace token")
           ELSE IF ~tokenMatches(Get(providedValue), Get(deps.traceToken))
           THEN Reply(req, admitted, 403, "Invalid trace token")
           ELSE IF contentLength # Null /\ Get(contentLength) > deps.maxTraceBodyBytes
           THEN Reply(req, admitted, 413, "Trace payload too large")
           ELSE IF received.bodyTooLarge
           THEN \* req.destroy(): the awaited promise rejects or never settles
                IF destroyEmitsError
                THEN Rejected(req, <<tooLarge, failed>>, admitted, TRUE)
                ELSE Rejected(req, <<tooLarge>>, admitted, FALSE)
           ELSE IF body.kind = "empty"
           THEN Reply(req, admitted, 400, "Missing request body")
           ELSE IF body.kind # "json"
           THEN Reply(req, admitted, 400, "Invalid JSON body")
           ELSE IF ~parsedPayload.success
           THEN Rejected(req,
                         <<sendJson(400,
                                    InvalidBody(IF missingResponseId
                                                THEN "Missing responseId"
                                                ELSE "Invalid trace payload",
                                                parsedPayload.issues[1]), {})>>,
                         admitted, TRUE)
           ELSE Upserted("write", req, admitted, normalizedMetadata, upsertThrows,
                         IF upsertThrows THEN <<failed>>
                         ELSE <<sendJson(200, AckBody(responseId), {})>>)

handleTraceUpsertRequest(req, rateLimitResult, upsertThrows, destroyEmitsError) ==
    LET providedValue == Header(req, TRACE_TOKEN_HEADER)
        clientIp == getClientIp(req, deps.trustProxy)
        contentLengthHeader == Header(req, "content-length")
        contentLength == IF contentLengthHeader = Null \/ Get(contentLengthHeader) = <<>>
                         THEN Null
                         ELSE NumberOf(Get(contentLengthHeader))
        received == ReceiveData(req.body.chunks, 0, deps.maxTraceBodyBytes)
        body == req.body.content
        parsedPayload == PostTracesRequestSchema(body.value)
        missingResponseId ==
            \E i \in 1..Len(parsedPayload.issues) :
                /\ parsedPayload.issues[i].path = <<"responseId">>
                /\ parsedPayload.issues[i].code = "invalid_type"
        normalizedMetadata == parsedPayload.data
        responseId == Field(normalizedMetadata, "responseId").v
        tooLarge == sendJson(413, ErrorBody("Trace payload too large"), {})
        failed == sendJson(500, ErrorBody("Failed to store trace"), {})
        admitted == Some([key |-> clientIp, result |-> rateLimitResult])
    IN  /\ Idle
        /\ IF req.method # "POST"
           THEN Reply(req, Null, 405, "Method not allowed")
           ELSE IF ~deps.traceStore
           THEN Reply(req, Null, 503, "Trace store unavailable")
           ELSE IF deps.traceToken = Null
           THEN Reply(req, Null, 503, "Trace ingestion not configured")
           ELSE IF providedValue = Null \/ Get(providedValue) = ""
           THEN Reply(req, Null, 401, "Missing trace token")
           ELSE IF ~tokenMatches(Get(providedValue), Get(deps.traceToken))
           THEN Reply(req, Null, 403, "Invalid trace token")
           ELSE IF ~deps.traceWriteLimiter
           THEN Reply(req, Null, 503, "Trace rate limiter unavailable")
           ELSE IF ~rateLimitResult.allowed   \* traceWriteLimiter.check(clientIp)
           THEN Rejected(req,
                         <<sendJson(429, LimitedBody(rateLimitResult.retryAfter),
                                    {<<"Retry-After",
                                       ToDecimal(rateLimitResult.retryAfter)>>})>>,
                         admitted, TRUE)
           ELSE IF contentLength # Null /\ Get(contentLength) > deps.maxTraceBodyBytes
           THEN Reply(req, admitted, 413, "Trace payload too large")
           ELSE IF received.bodyTooLarge
           THEN \* req.destroy(): the awaited promise rejects or never settles
                IF destroyEmitsError
                THEN Rejected(req, <<tooLarge, failed>>, admitted, TRUE)
                ELSE Rejected(req, <<tooLarge>>, admitted, FALSE)
           ELSE IF body.kind = "empty"
           THEN Reply(req, admitted, 400, "Missing request body")
           ELSE IF body.kind # "json"
           THEN Reply(req, admitted, 400, "Invalid JSON body")
           ELSE IF ~parsedPayload.success
           THEN Rejected(req,
                         <<sendJson(400,
                                    InvalidBody(IF missingResponseId
                                                THEN "Missing responseId"
                                                ELSE "Invalid trace payload",
                                                parsedPayload.issues[1]), {})>>,
                         admitted, TRUE)
           ELSE Upserted("write", req, admitted, normalizedMetadata, upsertThrows,
                         IF upsertThrows THEN <<failed>>
                         ELSE <<sendJson(200, AckBody(responseId), {})>>)

\* the reply pipeline's write-through: no response identifier, no write;
\* a failure of the store is logged and swallowed
storeTrace(metadata, upsertThrows) ==
    LET responseId == Field(metadata, "responseId")
    IN  /\ Idle
        /\ IF responseId.t = "undefined" \/ responseId = JString(<<>>)
           THEN /\ exchange' = Exchange("pipeline", metadata, <<>>, Null, Null, FALSE,
                                        Null, FALSE, TRUE)
                /\ UNCHANGED <<deps, records, now, staleSeen>>
           ELSE Upserted("pipeline", metadata, Null, metadata, upsertThrows, <<>>)

\* time passes between requests
Tick ==
    /\ Idle
    /\ now < MaxNow
    /\ now' = now + 1
    /\ UNCHANGED <<deps, records, staleSeen, exchange>>

\* the exchange is over: the connection closes
ExchangeClosed ==
    /\ ~Idle
    /\ exchange' = NoExchange
    /\ UNCHANGED <<deps, records, now, staleSeen>>

----------------------------------------------------------------------------
(* Specification of the lens flow *)

LensVarsInit ==
    /\ sessions = [k \in SessionKeys |-> Null]
    /\ alternativeLensInProgress = {}
    /\ submit = [h \in Handlers |-> IdleHandler]

TraceVarsInit(configs) ==
    /\ deps \in configs
    /\ records = <<>>
    /\ now = 0
    /\ staleSeen = {}
    /\ exchange = NoExchange

LensInit == LensVarsInit /\ TraceVarsInit({WorkingDeps})

InitStepOver(clicks) ==
    \E c \in clicks, text \in RecoveredTexts, lookup \in MetadataLookups :
        handleAlternativeLensButton(c[1], c[2], text, lookup)

InitStep == InitStepOver(InitClicks)

SelectStep ==
    \E u \in Users, m \in Msgs, selected \in {Null} \cup {Some(v) : v \in SelectValues} :
        handleAlternativeLensSelect(u, m, selected)

ModalStep ==
    \E u \in Users, m \in Msgs, input \in ModalInputs :
        handleAlternativeLensModal(u, m, input)

SubmitStartStep ==
    \E h \in Handlers, u \in Users, m \in Msgs, replyThrows \in BOOLEAN :
        SubmitStart(h, u, m, replyThrows)

SubmitAckOkStep == \E h \in Handlers : SubmitAckOk(h)
SubmitAckFailStep == \E h \in Handlers, replied \in BOOLEAN : SubmitAckFail(h, replied)
SubmitFollowUpStep == \E h \in Handlers : SubmitFollowUpSettled(h)
SubmitTryCompletedStep == \E h \in Handlers, sendable \in BOOLEAN : SubmitTryCompleted(h, sendable)
SubmitTryThrewStep == \E h \in Handlers : SubmitTryThrew(h)
SubmitCatchStep == \E h \in Handlers, noticeThrows \in BOOLEAN : SubmitCatchSettled(h, noticeThrows)
SubmitReturnStep == \E h \in Handlers : SubmitReturn(h)

LensNext ==
    \/ NoneDone /\ InitStep /\ UNCHANGED traceVars
    \/ NoneDone /\ SelectStep /\ UNCHANGED traceVars
    \/ NoneDone /\ ModalStep /\ UNCHANGED traceVars
    \/ NoneDone /\ SubmitStartStep /\ UNCHANGED traceVars
    \/ NoneDone /\ SubmitAckOkStep /\ UNCHANGED traceVars
    \/ NoneDone /\ SubmitAckFailStep /\ UNCHANGED traceVars
    \/ NoneDone /\ SubmitFollowUpStep /\ UNCHANGED traceVars
    \/ NoneDone /\ SubmitTryCompletedStep /\ UNCHANGED traceVars
    \/ NoneDone /\ SubmitTryThrewStep /\ UNCHANGED traceVars
    \/ NoneDone /\ SubmitCatchStep /\ UNCHANGED traceVars
    \/ SubmitReturnStep /\ UNCHANGED traceVars

vars == <<sessions, alternativeLensInProgress, submit, deps, records, now, staleSeen, exchange>>

LensSpec == LensInit /\ [][LensNext]_vars

----------------------------------------------------------------------------
(* Fairness: every awaited platform or generation call eventually returns  *)
(* or throws, so a suspended Submit is eventually resumed.  Strong fairness *)
(* because the resumption is momentarily disabled while another handler's  *)
(* promise settles.                                                        *)

SubmitResume(h) ==
    \/ SubmitAckOk(h)
    \/ \E replied \in BOOLEAN : SubmitAckFail(h, replied)
    \/ SubmitFollowUpSettled(h)
    \/ \E sendable \in BOOLEAN : SubmitTryCompleted(h, sendable)
    \/ SubmitTryThrew(h)
    \/ \E noticeThrows \in BOOLEAN : SubmitCatchSettled(h, noticeThrows)

\* the fairness specification clicks the initiating button for two users of
\* one message; every other interaction ranges over all users and messages
FairInitClicks == {<<"u1", "m1">>, <<"u2", "m1">>}

FairInitStep == InitStepOver(FairInitClicks)

LensFairNext ==
    \/ NoneDone /\ FairInitStep /\ UNCHANGED traceVars
    \/ NoneDone /\ SelectStep /\ UNCHANGED traceVars
    \/ NoneDone /\ ModalStep /\ UNCHANGED traceVars
    \/ NoneDone /\ SubmitStartStep /\ UNCHANGED traceVars
    \/ NoneDone /\ SubmitAckOkStep /\ UNCHANGED traceVars
    \/ NoneDone /\ SubmitAckFailStep /\ UNCHANGED traceVars
    \/ NoneDone /\ SubmitFollowUpStep /\ UNCHANGED traceVars
    \/ NoneDone /\ SubmitTryCompletedStep /\ UNCHANGED traceVars
    \/ NoneDone /\ SubmitTryThrewStep /\ UNCHANGED traceVars
    \/ NoneDone /\ SubmitCatchStep /\ UNCHANGED traceVars
    \/ SubmitReturnStep /\ UNCHANGED traceVars

LensFairSpec ==
    /\ LensInit
    /\ [][LensFairNext]_vars
    /\ \A h \in Handlers : SF_vars(NoneDone /\ SubmitResume(h) /\ UNCHANGED traceVars)
    /\ \A h \in Handlers : WF_vars(SubmitReturn(h) /\ UNCHANGED traceVars)

----------------------------------------------------------------------------
(* Claims about the lens flow *)

SubmitKey(h) == buildAlternativeLensSessionKey(submit[h].user, submit[h].msg)

\* the session's lens resolves to a payload, stated on the session's fields
LensResolved(session) ==
    /\ session.selectedLensKey # Null
    /\ Get(session.selectedLensKey) \in LensKeys
    /\ Get(session.selectedLensKey) = "CUSTOM"
        => (session.customDescription # Null /\ Get(session.customDescription) # <<>>)

\* C1: for every message id at most one Submit invocation is between setting
\* the in-progress guard and clearing it, whatever the interleaving and the
\* users; a Submit issued for a message whose guard is held starts no
\* generation and sets no guard, and when it has a session with a resolved
\* lens (so that it reaches the guard check) it is answered "already generating".
C1_AtMostOneHolder ==
    \A g, h \in Handlers :
        (g # h /\ HoldsGuard(g) /\ HoldsGuard(h)) => submit[g].msg # submit[h].msg

C1_SecondSubmitRejected ==
    \A h \in Handlers :
        (/\ submit[h].pc = "idle"
         /\ submit'[h].pc # "idle"
         /\ submit'[h].msg \in alternativeLensInProgress)
        => /\ submit'[h].pc = "done"
           /\ submit'[h].outcome = "rejected"
           /\ alternativeLensInProgress' = alternativeLensInProgress
           /\ LET s == sessions[buildAlternativeLensSessionKey(submit'[h].user, submit'[h].msg)]
              IN  (s # Null /\ LensResolved(Get(s)))
                  => submit'[h].answer = "already_generating"

C2_GuardOwned ==
    \A m \in alternativeLensInProgress :
        \E h \in Handlers : HoldsGuard(h) /\ submit[h].msg = m

C2_GuardReleased ==
    [](C2_GuardOwned)
    /\ \A m \in Msgs : (m \in alternativeLensInProgress) ~> (m \notin alternativeLensInProgress)

C2_Witness ==
    \E h \in Handlers :
        /\ submit[h].pc = "done"
        /\ submit[h].outcome = "ack_failed"
        /\ submit[h].msg \notin alternativeLensInProgress

\* C3: every Submit that set the guard has deleted the session under its own
\* (user, message) key when it finishes, on every outcome, unless the
\* initiating button was clicked again for that key in the meantime.
C3_SessionDeleted ==
    \A h \in Handlers :
        (/\ submit[h].pc = "done"
         /\ submit[h].outcome # "rejected"
         /\ ~submit[h].reinit)
        => sessions[SubmitKey(h)] = Null

\* C4: generation is invoked only with a resolved lens payload: a catalogue
\* key and, for CUSTOM, a non-empty description; a Submit on a session with
\* CUSTOM selected and no description is answered "select a lens first", sets
\* no guard and starts no generation; a Submit on a session holding CUSTOM
\* with a non-empty description passes the lens check.
C4_GeneratingHasLens ==
    \A h \in Handlers :
        submit[h].pc \in {"ack", "gen"}
        => /\ submit[h].lens # Null
           /\ Get(submit[h].lens).key \in LensKeys
           /\ Get(submit[h].lens).description # <<>>
           /\ Get(submit[h].lens).key = "CUSTOM"
               => Trim(Get(submit[h].lens).description) # <<>>

C4_LensCheck ==
    \A h \in Handlers :
        (submit[h].pc = "idle" /\ submit'[h].pc # "idle")
        => LET s == sessions[buildAlternativeLensSessionKey(submit'[h].user, submit'[h].msg)]
           IN  /\ submit'[h].pc = "ack" => (s # Null /\ LensResolved(Get(s)))
               /\ (s # Null /\ ~LensResolved(Get(s)))
                   => /\ submit'[h].answer = "select_lens_first"
                      /\ submit'[h].pc = "done"
                      /\ alternativeLensInProgress' = alternativeLensInProgress
               /\ (s # Null /\ LensResolved(Get(s)))
                   => submit'[h].answer \in {"progress", "already_generating"}

C4_GenerationNeedsLens == [](C4_GeneratingHasLens) /\ [][C4_LensCheck]_vars

C4_Witness ==
    \E h \in Handlers :
        /\ submit[h].pc = "done"
        /\ submit[h].answer = "select_lens_first"
        /\ sessions[SubmitKey(h)] # Null
        /\ Get(sessions[SubmitKey(h)]).selectedLensKey = Some("CUSTOM")
        /\ Get(sessions[SubmitKey(h)]).customDescription = Null

----------------------------------------------------------------------------
(* Specification of the trace endpoints *)

TraceInit == LensVarsInit /\ TraceVarsInit(DepsConfigs)

ReadStep ==
    \E req \in ReadRequests, retrieveThrows \in BOOLEAN :
        handleTraceRequest(req, retrieveThrows)

WriteStep ==
    \E req \in WriteRequests, rateLimitResult \in RateLimitResults,
       upsertThrows \in BOOLEAN, destroyEmitsError \in BOOLEAN :
        handleTraceUpsertRequest(req, rateLimitResult, upsertThrows,
                                 destroyEmitsError)

StoreTraceStep ==
    \E metadata \in StoreTracePayloads, upsertThrows \in BOOLEAN :
        storeTrace(metadata, upsertThrows)

TraceNext ==
    \/ ReadStep /\ UNCHANGED lensVars
    \/ WriteStep /\ UNCHANGED lensVars
    \/ StoreTraceStep /\ UNCHANGED lensVars
    \/ Tick /\ UNCHANGED lensVars
    \/ ExchangeClosed /\ UNCHANGED lensVars

TraceSpec == TraceInit /\ [][TraceNext]_vars

----------------------------------------------------------------------------
(* Claims about the trace endpoints *)

IsWrite == exchange.kind = "write"
IsRead == exchange.kind = "read"

\* the statuses of the responses sent in the exchange, in order
Statuses(e) == [i \in 1..Len(e.sent) |-> e.sent[i].status]

\* the JSON value of the written body and the key it would be stored under
Written == exchange.req.body.content.value
WrittenId == Field(Written, "responseId").v

\* the key a read looks up and the record the store holds under it
ReadKey == Get(pathMatch(exchange.req.pathname))
ReadRecord == traceStoreRetrieve(records, ReadKey)

\* the gates of a write, read off the request and the environment
IsPost == exchange.req.method = "POST"
Configured == deps.traceStore /\ deps.traceToken # Null
TokenSent == Header(exchange.req, TRACE_TOKEN_HEADER)
ExactToken == TokenSent # Null /\ TokenSent = deps.traceToken
Admitted ==
    /\ deps.traceWriteLimiter
    /\ exchange.limiter # Null
    /\ Get(exchange.limiter).result.allowed
WithinCap == SumOf(exchange.req.body.chunks) <= deps.maxTraceBodyBytes
IsJson == exchange.req.body.content.kind = "json"
ValidMetadata(x) == ResponseMetadataIssues(x) = NoIssues
KnownKeysOnly(x) == x.t = "object" /\ Keys(x) \subseteq responseMetadataKeys

\* staleAfter parses to an instant strictly earlier than the current time
Expired(metadata) ==
    LET staleAfter == Field(metadata, "staleAfter")
    IN  /\ staleAfter.t = "string"
        /\ DateParse(staleAfter.v) # Null
        /\ Get(DateParse(staleAfter.v)) < now

\* C5: the write handler calls the store's upsert only for a request that
\* passed, in that same request, the method check, store and secret
\* availability, the exact token match, the rate limiter, the body-size cap,
\* JSON parsing and strict schema validation (and then with the validated
\* payload); a write answered with a 4xx or 503 status leaves the stored
\* records unchanged.
C5_UpsertGated ==
    IsWrite /\ exchange.upsert # Null =>
        /\ IsPost /\ Configured /\ ExactToken /\ Admitted /\ WithinCap /\ IsJson
        /\ ValidMetadata(Written) /\ KnownKeysOnly(Written)
        /\ exchange.upsert = Some(Written)

C5_RejectionKeepsStore ==
    /\ exchange'.kind = "write"
    /\ \E i \in 1..Len(exchange'.sent) :
            exchange'.sent[i].status \in (400..499) \cup {503}
    => records' = records

C5_UpsertOnlyAfterGates == [](C5_UpsertGated) /\ [][C5_RejectionKeepsStore]_vars

C5_Witness ==
    /\ IsWrite
    /\ exchange.upsert # Null
    /\ ~exchange.threw
    /\ exchange.before = Null
    /\ traceStoreRetrieve(records, WrittenId) = Some(Written)

\* C6: on a configured endpoint, a POST without a token header is answered
\* 401 and one with a token other than the secret 403; a POST with the exact
\* token and a payload the write schema accepts, admitted by the limiter,
\* within the size cap and stored without a storage failure, is answered 200
\* with the record stored under the payload's responseId; repeating the
\* identical accepted write is answered 200 again and leaves the store as
\* it was.
C6_TokenOutcomes ==
    IsWrite /\ IsPost /\ Configured =>
        /\ TokenSent = Null => Statuses(exchange) = <<401>>
        /\ TokenSent # Null /\ ~ExactToken => Statuses(exchange) = <<403>>
        /\ /\ ExactToken /\ Admitted /\ WithinCap /\ IsJson
           /\ PostTracesRequestSchema(Written).success
           /\ ~exchange.threw
           => /\ exchange.sent = <<sendJson(200, AckBody(WrittenId), {})>>
              /\ traceStoreRetrieve(records, WrittenId) = Some(Written)

C6_RepeatKeepsStore ==
    /\ exchange'.kind = "write"
    /\ Statuses(exchange') = <<200>>
    /\ exchange'.before = exchange'.upsert
    => records' = records

C6_TokenAndIdempotence == [](C6_TokenOutcomes) /\ [][C6_RepeatKeepsStore]_vars

C6_Witness ==
    /\ IsWrite
    /\ Statuses(exchange) = <<200>>
    /\ exchange.before = Some(Written)
    /\ traceStoreRetrieve(records, WrittenId) = Some(Written)

C7_AcceptedIsStored ==
    IsWrite /\ Statuses(exchange) = <<200>> =>
        /\ ValidMetadata(Written) /\ KnownKeysOnly(Written)
        /\ traceStoreRetrieve(records, WrittenId) = Some(Written)

C7_UnknownFieldRejected ==
    /\ IsWrite /\ IsPost /\ Configured /\ ExactToken /\ Admitted /\ WithinCap
    /\ IsJson /\ ValidMetadata(Written) /\ ~KnownKeysOnly(Written)
    => /\ Statuses(exchange) = <<400>>
       /\ exchange.upsert = Null

C7_ReadReturnsStored ==
    IsRead /\ exchange.sent[1].status \in {200, 410} =>
        /\ ReadRecord # Null
        /\ exchange.sent[1].body.metadata = ReadRecord

C7_StoreChangesByUpsert ==
    records' # records =>
        /\ exchange'.kind \in {"write", "pipeline"}
        /\ exchange'.upsert # Null
        /\ LET key == Field(Get(exchange'.upsert), "responseId").v
           IN  /\ DOMAIN records' = DOMAIN records \cup {key}
               /\ records'[key] = exchange'.upsert
               /\ \A k \in DOMAIN records \ {key} : records'[k] = records[k]

C8_ReadFound ==
    /\ IsRead
    /\ pathMatch(exchange.req.pathname) # Null
    /\ deps.traceStore
    /\ ~exchange.threw
    /\ ReadRecord # Null

C8_StaleExactly ==
    C8_ReadFound =>
        Statuses(exchange) = <<IF Expired(Get(ReadRecord)) THEN 410 ELSE 200>>

C8_StaysStale ==
    C8_ReadFound /\ exchange.wasStale => Statuses(exchange) = <<410>>

C8_Staleness ==
    /\ [](C8_StaleExactly /\ C8_StaysStale)
    /\ [][now' >= now]_vars

C8_Witness ==
    /\ C8_ReadFound
    /\ exchange.wasStale
    /\ Statuses(exchange) = <<410>>

\* C9: a read with a well-formed path sends exactly one response: 503 when
\* the store is unavailable; otherwise 500 when the retrieval raised, 404
\* when no record is found; otherwise 410 with the staleness message and the
\* full metadata when the record is stale; otherwise 200 with the metadata
\* as body.
C9_ReadDecision ==
    IsRead /\ pathMatch(exchange.req.pathname) # Null =>
        LET response == exchange.sent[1]
        IN  /\ Len(exchange.sent) = 1
            /\ IF ~deps.traceStore
               THEN response.status = 503 /\ response.body.shape = "error"
               ELSE IF exchange.threw
               THEN response.status = 500 /\ response.body.shape = "error"
               ELSE IF ReadRecord = Null
               THEN response.status = 404 /\ response.body.shape = "error"
               ELSE IF Expired(Get(ReadRecord))
               THEN /\ response.status = 410
                    /\ response.body.shape = "stale"
                    /\ response.body.text = "Trace is stale"
                    /\ response.body.metadata = ReadRecord
               ELSE /\ response.status = 200
                    /\ response.body.shape = "metadata"
                    /\ response.body.metadata = ReadRecord

C9_Witness ==
    /\ IsRead
    /\ deps.traceStore
    /\ exchange.threw
    /\ Statuses(exchange) = <<500>>

\* C10: no record is ever removed from the store, and once a write for a
\* responseId was accepted, a client's read of that responseId is answered
\* 200, 410 or (storage failure) 500, never 404.
C10_ReadAfterWrite ==
    /\ IsRead
    /\ exchange.req.asked # Null
    /\ traceStoreRetrieve(records, Get(exchange.req.asked)) # Null
    => exchange.sent[1].status \in {200, 410, 500}

C10_NoDelete ==
    \A k \in DOMAIN records : traceStoreRetrieve(records', k) # Null

C10_NotFoundOnlyIfNeverWritten == [](C10_ReadAfterWrite) /\ [][C10_NoDelete]_vars

----------------------------------------------------------------------------
(* Interaction Reply Coordinator.                                          *)
(*                                                                         *)
(* A platform call (reply, followUp, fetchReply, deferUpdate, showModal,   *)
(* editReply) either resolves with a value or rejects with a thrown value. *)
(* What the platform does with a call is the environment's choice.         *)

Resolved(value) == [ok |-> TRUE, value |-> value]
Thrown(error) == [ok |-> FALSE, error |-> error]

\* what a resolved delivery call yields: a Message (it has edit and id) or an
\* InteractionResponse (it has neither)
MessageValue == [edit |-> TRUE, id |-> TRUE]
ResponseValue == [edit |-> FALSE, id |-> TRUE]

isMessageWithEdit(candidate) == candidate.edit /\ candidate.id

AlreadyAcknowledgedText == "Interaction has already been acknowledged"

\* thrown values: typeof is "object" for an Error, code and message are optional
ErrorObject(code, message) == [typeof |-> "object", code |-> code, message |-> message]

AckByCode == ErrorObject(Some(40060), Null)
AckByMessage == ErrorObject(Null, Some(<<"DiscordAPIError:", AlreadyAcknowledgedText, ".">>))
UnknownInteraction == ErrorObject(Some(10062), Some(<<"Unknown interaction">>))
ThrownString == [typeof |-> "string", code |-> Null, message |-> Null]
ThrownUndefined == [typeof |-> "undefined", code |-> Null, message |-> Null]

ThrownValues == {AckByCode, AckByMessage, UnknownInteraction, ThrownString, ThrownUndefined}

\* String.prototype.includes on a text of tokens
Includes(text, part) == \E i \in 1..Len(text) : text[i] = part

\* mutation: every rejected reply counts as already acknowledged
isAlreadyAcknowledgedInteraction_always(error) == TRUE

isAlreadyAcknowledgedInteraction(error) ==
    IF error.typeof # "object" THEN FALSE
    ELSE \/ error.code = Some(40060)
         \/ /\ error.message # Null
            /\ Includes(Get(error.message), AlreadyAcknowledgedText)

\* what the platform does with the calls of one safeInteractionReply
\* execution: acknowledged is interaction.deferred || interaction.replied
DeliveryOutcomes ==
    {Resolved(MessageValue), Resolved(ResponseValue)} \cup {Thrown(e) : e \in ThrownValues}

FollowUpOutcomes ==
    {Resolved(MessageValue), Resolved(ResponseValue), Thrown(UnknownInteraction)}

FetchReplyOutcomes == {Resolved(MessageValue), Thrown(UnknownInteraction)}

Platforms ==
    [acknowledged : BOOLEAN, reply : DeliveryOutcomes,
     followUp : FollowUpOutcomes, fetchReply : FetchReplyOutcomes]

Call(method, payload, outcome) == [method |-> method, payload |-> payload, outcome |-> outcome]

\* an execution: the platform calls made in order, and either the value
\* returned (Some(message) or Null) or the value thrown
Returned(calls, message) == [calls |-> calls, threw |-> Null, returned |-> message]
Rethrown(calls, error) == [calls |-> calls, threw |-> Some(error), returned |-> Null]

\* resolveMessage: the response itself when it is a Message, else fetchReply,
\* whose failure is logged and gives null
resolveMessage(calls, response, platform) ==
    IF isMessageWithEdit(response) THEN Returned(calls, Some(response))
    ELSE LET fetched == Append(calls, Call("fetchReply", "none", platform.fetchReply))
         IN  IF platform.fetchReply.ok
             THEN Returned(fetched, Some(platform.fetchReply.value))
             ELSE Returned(fetched, Null)

\* mutation: a message is resolved even after the follow-up failed
followUpOrNull_resolving(calls, payload, platform) ==
    LET made == Append(calls, Call("followUp", payload, platform.followUp))
    IN  resolveMessage(made, ResponseValue, platform)

\* the two follow-up blocks of safeInteractionReply: a failure is logged and
\* gives null
followUpOrNull(calls, payload, platform) ==
    LET made == Append(calls, Call("followUp", payload, platform.followUp))
    IN  IF platform.followUp.ok
        THEN resolveMessage(made, platform.followUp.value, platform)
        ELSE Returned(made, Null)

safeInteractionReply(options, platform) ==
    IF platform.acknowledged THEN followUpOrNull(<<>>, options, platform)
    ELSE LET made == <<Call("reply", options, platform.reply)>>
         IN  IF platform.reply.ok
             THEN resolveMessage(made, platform.reply.value, platform)
             ELSE IF ~isAlreadyAcknowledgedInteraction(platform.reply.error)
                  THEN Rethrown(made, platform.reply.error)
                  ELSE followUpOrNull(made, options, platform)

----------------------------------------------------------------------------
(* The lens handlers together with their platform calls.                   *)
(*                                                                         *)
(* The actions below are the handlers of the lens flow as above, with what *)
(* each one sends to the platform and whether its promise rejects recorded *)
(* in exchange, the interaction that just completed.                       *)

PlainOutcomes == {Resolved(ResponseValue), Thrown(AckByCode), Thrown(UnknownInteraction)}

\* a direct platform call of a handler: interaction.reply, deferUpdate, showModal
Sent(method, payload, value, outcome) ==
    [method |-> method, payload |-> payload, value |-> value, outcome |-> outcome]

\* a safeInteractionReply execution of a handler
Replied(payload, platform, execution) ==
    [payload |-> payload, acknowledged |-> platform.acknowledged, execution |-> execution]

\* input is what the user supplied: the recovered text of the clicked message,
\* the value chosen in the menu, the text typed into the modal
Interaction(kind, u, m, input, replies, sent, threw) ==
    [kind |-> kind, user |-> u, msg |-> m, input |-> input,
     replies |-> replies, sent |-> sent, threw |-> threw]

\* handleAlternativeLensButton: first is the platform's handling of the
\* missing-text reply or of the prompt, second of the error reply in the catch
\* block, whose rejection is swallowed by .catch(() => undefined)
ButtonReplies(text, first, second) ==
    LET payload == IF text = <<>> THEN "missing_text" ELSE "prompt"
        execution == safeInteractionReply(payload, first)
    IN  IF execution.threw = Null
        THEN <<Replied(payload, first, execution)>>
        ELSE <<Replied(payload, first, execution),
               Replied("initialisation_failed", second,
                       safeInteractionReply("initialisation_failed", second))>>

ButtonInteraction(u, m, text, lookup, first, second) ==
        /\ Idle
        /\ handleAlternativeLensButton(u, m, text, lookup)
        /\ exchange' = Interaction("init", u, m, text,
                                   ButtonReplies(text, first, second), <<>>, FALSE)
        /\ UNCHANGED <<deps, records, now, staleSeen>>

\* handleAlternativeLensSelect: first is the platform's handling of the call
\* the try block makes; when it rejects, the catch block replies unless the
\* interaction counts as deferred or replied, and swallows a second rejection
SelectInteraction(u, m, selected, first, acknowledged, second) ==
    LET sessionKey == buildAlternativeLensSessionKey(u, m)
        lensDefinition == IF selected = Null THEN Null
                          ELSE getAlternativeLensDefinition(Get(selected))
        session == IF lensDefinition = Null THEN Null
                   ELSE setAlternativeLensSelection(
                            sessions, sessionKey, Get(lensDefinition).key)[sessionKey]
        primary ==
            IF selected = Null THEN Sent("deferUpdate", "none", Null, first)
            ELSE IF lensDefinition = Null
            THEN Sent("reply", "lens_unavailable", Null, first)
            ELSE IF session = Null
            THEN Sent("reply", "session_expired", Null, first)
            ELSE IF Get(lensDefinition).requiresCustomDescription
            THEN Sent("showModal", "custom_lens_details",
                      IF Truthy(Get(session).customDescription)
                      THEN Get(session).customDescription ELSE Null,
                      first)
            ELSE Sent("deferUpdate", "none", Null, first)
        sent == IF first.ok \/ acknowledged THEN <<primary>>
                ELSE <<primary, Sent("reply", "selection_failed", Null, second)>>
    IN  /\ Idle
        /\ handleAlternativeLensSelect(u, m, selected)
        /\ exchange' = Interaction("select", u, m, selected, <<>>, sent, FALSE)
        /\ UNCHANGED <<deps, records, now, staleSeen>>

\* handleAlternativeLensModal: one interaction.reply outside any try block, so
\* its rejection is the handler's
ModalInteraction(u, m, input, first) ==
    LET sessionKey == buildAlternativeLensSessionKey(u, m)
        payload == IF getAlternativeLensSession(sessionKey) = Null THEN "session_expired"
                   ELSE IF Trim(input) = <<>> THEN "describe_lens"
                   ELSE "lens_saved"
    IN  /\ Idle
        /\ handleAlternativeLensModal(u, m, input)
        /\ exchange' = Interaction("modal", u, m, input, <<>>,
                                   <<Sent("reply", payload, Null, first)>>, ~first.ok)
        /\ UNCHANGED <<deps, records, now, staleSeen>>

\* the in-progress acknowledgment of a Submit rejected with the value error
SubmitAckRejected(h, error, replied) ==
    /\ Idle
    /\ SubmitAckFail(h, replied)
    /\ exchange' = Interaction("submit_ack", submit[h].user, submit[h].msg, Null, <<>>,
                               <<Sent("reply", "progress", Null, Thrown(error))>>, FALSE)
    /\ UNCHANGED <<deps, records, now, staleSeen>>

----------------------------------------------------------------------------
(* Specification of the reply coordinator: the initiating button is        *)
(* clicked and the platform handles the handler's replies in every way.    *)

\* the platform's handling of the error reply matters only when the first
\* execution threw
SecondPlatforms(first) ==
    IF safeInteractionReply("prompt", first).threw = Null THEN {first} ELSE Platforms

\* recoveries are pairs of the text and the result of the trace lookup
ButtonStepOver(users, msgs, recoveries, platforms) ==
    \E u \in users, m \in msgs, text \in {r[1] : r \in recoveries},
       lookup \in {r[2] : r \in recoveries},
       first \in platforms :
        \E second \in SecondPlatforms(first) \cap platforms :
            /\ <<text, lookup>> \in recoveries
            /\ ButtonInteraction(u, m, text, lookup, first, second)

FlowMsgs == {"m1"}

ReplyNext ==
    \/ ButtonStepOver(Users, FlowMsgs, RecoveredTexts \X MetadataLookups, Platforms)
    \/ ExchangeClosed /\ UNCHANGED lensVars

ReplySpec == LensInit /\ [][ReplyNext]_vars

----------------------------------------------------------------------------
(* Specification of the lens flow with its platform calls: one user opens   *)
(* sessions on one message, both users select, describe and submit, and one *)
(* Submit runs at a time.                                                   *)

\* the platform delivers the reply, or reports it as already acknowledged and
\* delivers the follow-up, or rejects it for another reason
FlowPlatforms ==
    {p \in Platforms :
        /\ ~p.acknowledged
        /\ p.reply \in {Resolved(MessageValue), Thrown(AckByCode), Thrown(UnknownInteraction)}
        /\ p.followUp = Resolved(MessageValue)
        /\ p.fetchReply = Resolved(MessageValue)}

FlowHandlers == {1}

\* the modal texts of this specification are long enough to carry whitespace
\* on either side of visible text
MaxFlowDescLen == 2

FlowModalInputs == TextsUpTo({WS, "a"}, MaxFlowDescLen)

\* the user who clicks the initiating button; the other user's interactions
\* find no session
FlowInitUsers == {"u1"}

\* two different replies can be recovered, one of them with a stored trace,
\* so that a second Init captures a context different from the first
FlowRecoveries ==
    {<< <<>>, NoLookup >>, << <<"reply">>, NoLookup >>,
     << <<"edited", "reply">>, FoundLookup >>}

ButtonStep == ButtonStepOver(FlowInitUsers, FlowMsgs, FlowRecoveries, FlowPlatforms)

SelectInteractionStep ==
    \E u \in Users, m \in FlowMsgs,
       selected \in {Null} \cup {Some(v) : v \in SelectValues},
       first \in PlainOutcomes, acknowledged \in BOOLEAN :
        \E second \in IF first.ok \/ acknowledged THEN {first} ELSE PlainOutcomes :
            SelectInteraction(u, m, selected, first, acknowledged, second)

ModalInteractionStep ==
    \E u \in Users, m \in FlowMsgs, input \in FlowModalInputs, first \in PlainOutcomes :
        ModalInteraction(u, m, input, first)

FlowSubmitStartStep ==
    \E h \in FlowHandlers, u \in Users, m \in FlowMsgs, replyThrows \in BOOLEAN :
        SubmitStart(h, u, m, replyThrows)

SubmitAckRejectedStep ==
    \E h \in FlowHandlers, error \in {AckByCode, UnknownInteraction}, replied \in BOOLEAN :
        SubmitAckRejected(h, error, replied)

Quiet == Idle /\ UNCHANGED traceVars

FlowNext ==
    \/ NoneDone /\ ButtonStep
    \/ NoneDone /\ SelectInteractionStep
    \/ NoneDone /\ ModalInteractionStep
    \/ NoneDone /\ FlowSubmitStartStep /\ Quiet
    \/ NoneDone /\ SubmitAckOkStep /\ Quiet
    \/ NoneDone /\ SubmitAckRejectedStep
    \/ NoneDone /\ SubmitFollowUpStep /\ Quiet
    \/ NoneDone /\ SubmitTryCompletedStep /\ Quiet
    \/ NoneDone /\ SubmitTryThrewStep /\ Quiet
    \/ NoneDone /\ SubmitCatchStep /\ Quiet
    \/ SubmitReturnStep /\ Quiet
    \/ ExchangeClosed /\ UNCHANGED lensVars

FlowSpec == LensInit /\ [][FlowNext]_vars

----------------------------------------------------------------------------
(* Specification of the lens flow under a running clock: every interaction *)
(* of both users with one message, any two Submit invocations interleaved. *)

TimedSubmitStartStep ==
    \E h \in Handlers, u \in Users, m \in FlowMsgs, replyThrows \in BOOLEAN :
        SubmitStart(h, u, m, replyThrows)

TimedNext ==
    \/ NoneDone /\ InitStepOver(Users \X FlowMsgs) /\ UNCHANGED traceVars
    \/ NoneDone /\ SelectStep /\ UNCHANGED traceVars
    \/ NoneDone /\ ModalStep /\ UNCHANGED traceVars
    \/ NoneDone /\ TimedSubmitStartStep /\ UNCHANGED traceVars
    \/ NoneDone /\ SubmitAckOkStep /\ UNCHANGED traceVars
    \/ NoneDone /\ SubmitAckFailStep /\ UNCHANGED traceVars
    \/ NoneDone /\ SubmitFollowUpStep /\ UNCHANGED traceVars
    \/ NoneDone /\ SubmitTryCompletedStep /\ UNCHANGED traceVars
    \/ NoneDone /\ SubmitTryThrewStep /\ UNCHANGED traceVars
    \/ NoneDone /\ SubmitCatchStep /\ UNCHANGED traceVars
    \/ SubmitReturnStep /\ UNCHANGED traceVars
    \/ Tick /\ UNCHANGED lensVars

TimedSpec == LensInit /\ [][TimedNext]_vars

----------------------------------------------------------------------------
(* Claims about the reply coordinator *)

\* the safeInteractionReply executions of the interaction that just completed
Executions == IF exchange.kind = "init" THEN exchange.replies ELSE <<>>

\* the delivery calls of an execution: reply and followUp, not fetchReply
Deliveries(execution) == SelectSeq(execution.calls, LAMBDA c : c.method # "fetchReply")
Methods(calls) == [i \in 1..Len(calls) |-> calls[i].method]
Delivered(execution) ==
    Cardinality({i \in 1..Len(execution.calls) :
                    /\ execution.calls[i].method # "fetchReply"
                    /\ execution.calls[i].outcome.ok})

\* a rejection that says the interaction was already acknowledged
AlreadyAcknowledged(outcome) ==
    /\ ~outcome.ok
    /\ \/ outcome.error.code = Some(40060)
       \/ /\ outcome.error.message # Null
          /\ \E i \in 1..Len(Get(outcome.error.message)) :
                Get(outcome.error.message)[i] = AlreadyAcknowledgedText

\* C11: safeInteractionReply sends a follow-up and never a reply when the
\* interaction is deferred or replied, and a reply otherwise; after a reply
\* that fails as already acknowledged (code 40060 or a matching message) it
\* sends exactly one follow-up with the same payload; any other reply failure
\* is rethrown to the caller without a follow-up.
C11_DeliveryChoice ==
    \A i \in 1..Len(Executions) :
        LET r == Executions[i]
            sent == Deliveries(r.execution)
        IN  /\ \A j \in 1..Len(sent) : sent[j].payload = r.payload
            /\ r.acknowledged
                => /\ Methods(sent) = <<"followUp">>
                   /\ r.execution.threw = Null
            /\ ~r.acknowledged
                => /\ sent[1].method = "reply"
                   /\ sent[1].outcome.ok
                       => Methods(sent) = <<"reply">> /\ r.execution.threw = Null
                   /\ AlreadyAcknowledged(sent[1].outcome)
                       => Methods(sent) = <<"reply", "followUp">> /\ r.execution.threw = Null
                   /\ (~sent[1].outcome.ok /\ ~AlreadyAcknowledged(sent[1].outcome))
                       => /\ Methods(sent) = <<"reply">>
                          /\ r.execution.threw = Some(sent[1].outcome.error)

\* a reply rejected as already acknowledged by its message text was followed
\* up, and the error reply after a rethrown failure was sent by follow-up
C11_Witness ==
    /\ Len(Executions) = 2
    /\ Methods(Deliveries(Executions[1].execution)) = <<"reply">>
    /\ Executions[1].execution.threw = Some(UnknownInteraction)
    /\ ~Executions[2].acknowledged
    /\ Executions[2].execution.calls[1].outcome = Thrown(AckByMessage)
    /\ Methods(Deliveries(Executions[2].execution)) = <<"reply", "followUp">>

\* C12 as stated: every execution attempts the reply at most once and the
\* follow-up at most once, never delivers twice, and has delivered the payload
\* once whenever it returns (a message or null) instead of throwing.
C12_DeliveredExactlyOnce ==
    \A i \in 1..Len(Executions) :
        LET e == Executions[i].execution
        IN  /\ Cardinality({j \in 1..Len(e.calls) : e.calls[j].method = "reply"}) <= 1
            /\ Cardinality({j \in 1..Len(e.calls) : e.calls[j].method = "followUp"}) <= 1
            /\ Delivered(e) <= 1
            /\ e.threw = Null => Delivered(e) = 1

\* C12, amended: every execution attempts the reply at most once and the
\* follow-up at most once and delivers the payload at most once; it has
\* delivered it once when it returns a message, and when it returns null
\* unless its follow-up was rejected, in which case nothing was delivered;
\* nothing was delivered when it throws.
C12_DeliveredAtMostOnce ==
    \A i \in 1..Len(Executions) :
        LET e == Executions[i].execution
            sent == Deliveries(e)
            followUpRejected == sent[Len(sent)].method = "followUp" /\ ~sent[Len(sent)].outcome.ok
        IN  /\ Cardinality({j \in 1..Len(e.calls) : e.calls[j].method = "reply"}) <= 1
            /\ Cardinality({j \in 1..Len(e.calls) : e.calls[j].method = "followUp"}) <= 1
            /\ Delivered(e) <= 1
            /\ e.returned # Null => Delivered(e) = 1
            /\ (e.threw = Null /\ e.returned = Null)
                => Delivered(e) = (IF followUpRejected THEN 0 ELSE 1)
            /\ e.threw # Null => Delivered(e) = 0

\* a follow-up after an already-acknowledged reply was rejected and the
\* execution returned null with nothing delivered; another execution returned
\* null after a delivered reply whose message could not be fetched
C12_Witness ==
    \E i \in 1..Len(Executions) :
        LET e == Executions[i].execution
        IN  /\ e.threw = Null /\ e.returned = Null
            /\ Methods(e.calls) = <<"reply", "followUp">>
            /\ Delivered(e) = 0

----------------------------------------------------------------------------
(* Claims about the lens flow and its platform calls *)

IsInit == exchange.kind = "init"
IsSelect == exchange.kind = "select"
IsModal == exchange.kind = "modal"
IsSubmitAck == exchange.kind = "submit_ack"
IsLensInteraction == IsInit \/ IsSelect \/ IsModal \/ IsSubmitAck

ExchangeKey == buildAlternativeLensSessionKey(exchange.user, exchange.msg)

\* the message a handler answered with: the payload of its first call
FirstAnswer == IF IsInit THEN exchange.replies[1].payload ELSE exchange.sent[1].payload

\* C13: no handler of the lens flow (Init, Select, Modal-submit, Submit) lets
\* an exception leave it, whatever platform call, metadata lookup or
\* generation fails; in particular the "session expired" answer to a missing
\* session never ends in an unhandled exception, even when sending it fails.
C13_NoHandlerThrows ==
    /\ IsLensInteraction => ~exchange.threw
    /\ \A h \in Handlers : ~submit[h].threw

\* C14: every reply of a lens handler that fails as already acknowledged is
\* sent again as a follow-up with the same payload, and the handler goes on as
\* after a delivered reply: for Submit's in-progress acknowledgment, the guard
\* stays set and generation runs.
C14_AcknowledgedRecovered ==
    /\ IsInit =>
        \A i \in 1..Len(exchange.replies) :
            LET calls == exchange.replies[i].execution.calls
            IN  (calls[1].method = "reply" /\ AlreadyAcknowledged(calls[1].outcome))
                => (Len(calls) > 1 /\ calls[2].method = "followUp"
                    /\ calls[2].payload = calls[1].payload)
    /\ (IsSelect \/ IsModal \/ IsSubmitAck) =>
        \A i \in 1..Len(exchange.sent) :
            (exchange.sent[i].method = "reply" /\ AlreadyAcknowledged(exchange.sent[i].outcome))
            => /\ i < Len(exchange.sent)
               /\ exchange.sent[i + 1].method = "followUp"
               /\ exchange.sent[i + 1].payload = exchange.sent[i].payload
               /\ ~exchange.threw
    /\ (IsSubmitAck /\ AlreadyAcknowledged(exchange.sent[1].outcome)) =>
        \E h \in Handlers :
            /\ SubmitKey(h) = ExchangeKey
            /\ submit[h].pc = "gen"
            /\ exchange.msg \in alternativeLensInProgress

\* the step is a Select or a Modal-submit that found no session under its key
NoSessionInteraction(kinds) ==
    /\ Idle
    /\ exchange'.kind \in kinds
    /\ sessions[buildAlternativeLensSessionKey(exchange'.user, exchange'.msg)] = Null

\* the step starts Submit invocation h, which found no session under its key
NoSessionSubmit(h) ==
    /\ submit[h].pc = "idle"
    /\ submit'[h].pc # "idle"
    /\ sessions[buildAlternativeLensSessionKey(submit'[h].user, submit'[h].msg)] = Null

ExpiredSubmitRejected ==
    \A h \in Handlers :
        NoSessionSubmit(h)
        => /\ submit'[h].answer = "session_expired"
           /\ submit'[h].pc = "done"
           /\ submit'[h].outcome = "rejected"
           /\ submit'[h].lens = Null
           /\ sessions' = sessions
           /\ alternativeLensInProgress' = alternativeLensInProgress

ExpiredAnswer ==
    /\ exchange'.sent[1].method = "reply"
    /\ exchange'.sent[1].payload = "session_expired"
    /\ lensVars' = lensVars

\* C15 as stated: every Select, Modal-submit and Submit addressed to a key
\* without a session is answered "session expired", and creates no session,
\* sets no guard, starts no generation and changes no session and no guard.
C15_ExpiredAnswered ==
    [][/\ NoSessionInteraction({"select", "modal"}) => ExpiredAnswer
       /\ ExpiredSubmitRejected]_vars

\* C15, amended: a Modal-submit, a Submit, and a Select of a catalogue lens
\* addressed to a key without a session are answered "session expired"; a
\* Select of a value that is not in the catalogue is answered "that lens is no
\* longer available" and a Select without a value is only acknowledged
\* (deferUpdate), whether or not a session exists; each of them creates no
\* session, sets no guard, starts no generation and changes no session and no
\* guard.
C15_ExpiredAnsweredForCatalogueLens ==
    [][/\ NoSessionInteraction({"modal"}) => ExpiredAnswer
       /\ NoSessionInteraction({"select"}) =>
            /\ lensVars' = lensVars
            /\ IF exchange'.input = Null
               THEN exchange'.sent[1].method = "deferUpdate"
               ELSE IF Get(exchange'.input) \notin LensKeys
               THEN /\ exchange'.sent[1].method = "reply"
                    /\ exchange'.sent[1].payload = "lens_unavailable"
               ELSE ExpiredAnswer
       /\ ExpiredSubmitRejected]_vars

\* a Select of the custom lens for a key without a session was answered
\* "session expired" while the other user's session exists and a Submit of
\* that user holds the guard
C15_Witness ==
    /\ IsSelect
    /\ exchange.input = Some("CUSTOM")
    /\ FirstAnswer = "session_expired"
    /\ sessions[ExchangeKey] = Null
    /\ \E k \in SessionKeys : sessions[k] # Null
    /\ exchange.msg \in alternativeLensInProgress

\* the step is a handler of one of the kinds running to completion
Handled(kinds) == Idle /\ exchange'.kind \in kinds

HandledKey == buildAlternativeLensSessionKey(exchange'.user, exchange'.msg)

OtherSessionsKept(key) == \A k \in SessionKeys \ {key} : sessions'[k] = sessions[k]

Entry(key) == CHOOSE e \in {LENS_DEFINITIONS[i] : i \in 1..Len(LENS_DEFINITIONS)} : e.key = key

PlainLensKeys == {k \in LensKeys : ~Entry(k).requiresCustomDescription}

\* Submit invocation h starts in this step and finds the session s
SubmitStarts(h, s) ==
    /\ submit[h].pc = "idle"
    /\ submit'[h].pc # "idle"
    /\ s = sessions[buildAlternativeLensSessionKey(submit'[h].user, submit'[h].msg)]

\* C17: a Select of a catalogue lens that needs no custom text stores the
\* selection and discards any custom description; a Submit on a session with
\* such a selection passes the lens check with that entry's label and
\* description; and in every reachable state a session has a custom
\* description only if its selected lens is CUSTOM.
C17_DescriptionOnlyWithCustom ==
    \A k \in SessionKeys :
        (sessions[k] # Null /\ Get(sessions[k]).customDescription # Null)
        => Get(sessions[k]).selectedLensKey = Some("CUSTOM")

C17_SelectStores ==
    /\ (/\ Handled({"select"})
        /\ exchange'.input # Null
        /\ Get(exchange'.input) \in PlainLensKeys
        /\ sessions[HandledKey] # Null)
       => /\ sessions'[HandledKey] =
                Some([Get(sessions[HandledKey]) EXCEPT
                        !.selectedLensKey = exchange'.input,
                        !.customDescription = Null])
          /\ OtherSessionsKept(HandledKey)
          /\ exchange'.sent[1].method = "deferUpdate"
    /\ \A h \in Handlers, key \in PlainLensKeys :
        \A s \in {sessions[k] : k \in SessionKeys} :
            (SubmitStarts(h, s) /\ s # Null /\ Get(s).selectedLensKey = Some(key))
            => /\ submit'[h].answer \in {"progress", "already_generating"}
               /\ submit'[h].pc = "ack"
                   => submit'[h].lens = Some([key |-> key,
                                              label |-> Entry(key).label,
                                              description |-> Entry(key).description])

C17_CatalogueSelection == [](C17_DescriptionOnlyWithCustom) /\ [][C17_SelectStores]_vars

\* the Utilitarian lens was selected over a session and a Submit on it is
\* about to generate with the catalogue's label and description
C17_Witness ==
    /\ IsSelect
    /\ exchange.input = Some("UTILITARIAN")
    /\ sessions[ExchangeKey] # Null
    /\ Get(sessions[ExchangeKey]).selectedLensKey = Some("UTILITARIAN")
    /\ \E h \in Handlers :
        /\ SubmitKey(h) = ExchangeKey
        /\ submit[h].pc = "gen"
        /\ Get(submit[h].lens).label = "Utilitarian"

\* the step is a Select of the custom lens over an existing session
CustomSelected ==
    /\ Handled({"select"})
    /\ exchange'.input = Some("CUSTOM")
    /\ sessions[HandledKey] # Null

\* Select(CUSTOM) shows the modal with the stored description as its value
\* and keeps that description, the selection becoming CUSTOM
C18_ModalPrefilled ==
    CustomSelected
    => /\ exchange'.sent[1].method = "showModal"
       /\ exchange'.sent[1].value = Get(sessions[HandledKey]).customDescription
       /\ sessions'[HandledKey] =
            Some([Get(sessions[HandledKey]) EXCEPT !.selectedLensKey = Some("CUSTOM")])

\* C18 as stated: Select(CUSTOM) opens the modal pre-filled with the
\* description entered earlier in the session, whatever Select and
\* Modal-submit operations came in between, and does not discard it: no
\* Select and no Modal-submit leaves a session that held a description
\* without one.
C18_PrefilledAfterAnySequence ==
    [][/\ C18_ModalPrefilled
       /\ (/\ Handled({"select", "modal"})
           /\ sessions[HandledKey] # Null
           /\ Get(sessions[HandledKey]).customDescription # Null)
          => /\ sessions'[HandledKey] # Null
             /\ Get(sessions'[HandledKey]).customDescription # Null]_vars

\* C18, amended: Select(CUSTOM) opens the modal pre-filled with the
\* description the session holds and moves to custom-description-pending
\* without discarding it.  The session holds the description of its last
\* Modal-submit unless a catalogue lens that needs no custom text was selected
\* after it: that Select discards the description, every other Select and an
\* empty Modal-submit keep it, a non-empty Modal-submit replaces it.
C18_PrefilledWithStored ==
    [][/\ C18_ModalPrefilled
       /\ (/\ Handled({"select", "modal"})
           /\ sessions[HandledKey] # Null
           /\ Get(sessions[HandledKey]).customDescription # Null)
          => /\ sessions'[HandledKey] # Null
             /\ IF exchange'.kind = "select"
                THEN IF exchange'.input # Null /\ Get(exchange'.input) \in PlainLensKeys
                     THEN Get(sessions'[HandledKey]).customDescription = Null
                     ELSE Get(sessions'[HandledKey]).customDescription
                            = Get(sessions[HandledKey]).customDescription
                ELSE Get(sessions'[HandledKey]).customDescription # Null]_vars

\* the custom lens was selected again over a session holding a description:
\* the modal carries it and the session still holds it
C18_Witness ==
    /\ IsSelect
    /\ exchange.input = Some("CUSTOM")
    /\ exchange.sent[1].method = "showModal"
    /\ exchange.sent[1].value = Some(<<"a">>)
    /\ sessions[ExchangeKey] # Null
    /\ Get(sessions[ExchangeKey]).customDescription = Some(<<"a">>)

\* a run of n whitespace tokens
Blank(n) == [i \in 1..n |-> WS]

\* t is input without its leading and trailing whitespace
IsTrimOf(t, input) ==
    /\ \E i, j \in 0..Len(input) : input = Blank(i) \o t \o Blank(j)
    /\ t # <<>> => (t[1] # WS /\ t[Len(t)] # WS)
    /\ t = <<>> => \A i \in 1..Len(input) : input[i] = WS

\* C19: a Modal-submit over an existing session whose text is empty after
\* trimming re-prompts and leaves the session unchanged; otherwise the
\* selected lens becomes CUSTOM and the custom description the trimmed text,
\* and a Submit on that session passes the lens check and generates with
\* exactly that text as the lens description.
C19_ModalStores ==
    /\ (Handled({"modal"}) /\ sessions[HandledKey] # Null)
       => /\ OtherSessionsKept(HandledKey)
          /\ IF IsTrimOf(<<>>, exchange'.input)
             THEN /\ sessions' = sessions
                  /\ exchange'.sent[1].payload = "describe_lens"
             ELSE /\ sessions'[HandledKey] # Null
                  /\ Get(sessions'[HandledKey]).selectedLensKey = Some("CUSTOM")
                  /\ Get(sessions'[HandledKey]).customDescription # Null
                  /\ IsTrimOf(Get(Get(sessions'[HandledKey]).customDescription),
                              exchange'.input)
                  /\ Get(sessions'[HandledKey]).context = Get(sessions[HandledKey]).context
                  /\ exchange'.sent[1].payload = "lens_saved"
    /\ \A h \in Handlers :
        \A s \in {sessions[k] : k \in SessionKeys} :
            (/\ SubmitStarts(h, s)
             /\ s # Null
             /\ Get(s).selectedLensKey = Some("CUSTOM")
             /\ Get(s).customDescription # Null)
            => /\ submit'[h].answer \in {"progress", "already_generating"}
               /\ submit'[h].pc = "ack"
                   => submit'[h].lens = Some([key |-> "CUSTOM",
                                              label |-> Entry("CUSTOM").label,
                                              description |-> Get(Get(s).customDescription)])
    /\ \A h \in Handlers :
        (submit[h].pc = "ack" /\ submit'[h].pc = "gen") => submit'[h].lens = submit[h].lens

C19_CustomDescription == [][C19_ModalStores]_vars

\* a Modal-submit whose text had whitespace around it stored the trimmed text
C19_Witness ==
    /\ IsModal
    /\ exchange.input = <<"a", WS>>
    /\ FirstAnswer = "lens_saved"
    /\ sessions[ExchangeKey] # Null
    /\ Get(sessions[ExchangeKey]).selectedLensKey = Some("CUSTOM")
    /\ Get(sessions[ExchangeKey]).customDescription = Some(<<"a">>)

\* C20: session and guard entries do not expire.  A session leaves the map
\* only in the cleanup of a Submit for its key (an Init for the key replaces
\* it by a fresh one), and a guard entry is removed only by the Submit that
\* set it; no Select, no Modal-submit, no rejected Submit and no passage of
\* time removes an entry.
C20_RemovedOnlyBySubmit ==
    /\ \A k \in SessionKeys :
        (sessions[k] # Null /\ sessions'[k] = Null)
        => \E h \in Handlers :
            /\ SubmitKey(h) = k
            /\ submit[h].pc \in {"gen", "catch"}
            /\ submit'[h].pc = "done"
    /\ \A m \in alternativeLensInProgress :
        m \notin alternativeLensInProgress'
        => \E h \in Handlers :
            /\ submit[h].msg = m
            /\ HoldsGuard(h)
            /\ submit'[h].pc \in {"followup", "done"}
    /\ \A h \in Handlers :
        (submit[h].pc = "idle" /\ submit'[h].outcome = "rejected")
        => /\ sessions' = sessions
           /\ alternativeLensInProgress' = alternativeLensInProgress
    /\ now' # now => lensVars' = lensVars
    /\ \A k \in SessionKeys :
        (sessions[k] # Null /\ sessions'[k] # Null)
        => \/ Get(sessions'[k]).context = Get(sessions[k]).context
           \/ /\ Get(sessions'[k]).selectedLensKey = Null
              /\ Get(sessions'[k]).customDescription = Null

C20_NoExpiry == [][C20_RemovedOnlyBySubmit]_vars

\* the clock has advanced as far as it goes; a session with a selected lens
\* and the guard of a running Submit are still there, and a second Submit was
\* rejected as already generating
C20_Witness ==
    /\ now = MaxNow
    /\ \E k \in SessionKeys :
        /\ sessions[k] # Null
        /\ Get(sessions[k]).selectedLensKey # Null
    /\ \E g, h \in Handlers :
        /\ submit[g].pc = "gen"
        /\ submit[g].msg \in alternativeLensInProgress
        /\ submit[h].pc = "done"
        /\ submit[h].answer = "already_generating"

\* C21: the context captured at Init is an immutable snapshot: while a
\* session exists its context changes only when an Init for its key replaces
\* the session, and a Submit hands to generation exactly the context of the
\* session it read.  Select and Modal-submit change nothing but the selected
\* lens and the custom description of the session under the caller's own key:
\* every other session, the guard set and the running Submits stay as they
\* are.
C21_ContextKept ==
    /\ \A k \in SessionKeys :
        (/\ sessions[k] # Null
         /\ sessions'[k] # Null
         /\ ~(Handled({"init"}) /\ HandledKey = k))
        => Get(sessions'[k]).context = Get(sessions[k]).context
    /\ Handled({"select", "modal"})
        => /\ OtherSessionsKept(HandledKey)
           /\ alternativeLensInProgress' = alternativeLensInProgress
           /\ submit' = submit
           /\ sessions[HandledKey] = Null => sessions'[HandledKey] = Null
    /\ \A h \in Handlers :
        /\ \A s \in {sessions[k] : k \in SessionKeys} :
            (SubmitStarts(h, s) /\ submit'[h].pc = "ack")
            => submit'[h].context = Some(Get(s).context)
        /\ (submit[h].pc \in {"ack", "gen"} /\ submit'[h].pc \in {"ack", "gen"})
            => submit'[h].context = submit[h].context

----------------------------------------------------------------------------
(* Specification of trace ingestion over HTTP: the write endpoint against  *)
(* requests whose headers a client chooses freely, and against the         *)
(* requests the bot's own client sends.                                    *)

\* the secret is set, the store and the limiter are there; the server runs
\* behind a reverse proxy or takes direct traffic
IngestDeps ==
    {[WorkingDeps EXCEPT !.trustProxy = trustProxy] : trustProxy \in BOOLEAN}

IngestBodies ==
    {Body(JsonText(BaseMetadata), c) :
        c \in {<<MaxTraceBodyBytes>>, <<1, MaxTraceBodyBytes - 1>>,
               <<MaxTraceBodyBytes + 1>>, <<MaxTraceBodyBytes, 1>>}}

\* Content-Length as a client may send it: none, the true length, a text
\* that is no number, a length below the body's, a length above the cap
DeclaredLengths(body) ==
    {Null, Some(ToDecimal(SumOf(body.chunks))), Some(<<"x">>), Some(<<"1">>),
     Some(ToDecimal(MaxTraceBodyBytes + 1))}

RemoteAddresses ==
    {Null, Some(DirectAddress), Some(<<"::ffff:">> \o DirectAddress)}

ForwardedFors ==
    {Null, Some(<<>>), Some(<<"10.0.0.9">>),
     Some(<<WS, "10.0.0.9", WS, ",", "10.0.0.1">>),
     Some(<<"::ffff:", "10.0.0.9", ",", "10.0.0.1">>)}

IngestRequests ==
    {IncomingMessage("POST",
                     HeaderLine("X-Arete-Trace-Token", t)
                     @@ HeaderLine("Content-Length", declared)
                     @@ HeaderLine("X-Forwarded-For", forwardedFor),
                     remoteAddress, b) :
        t \in {Null, Some(TraceSecret)},
        b \in IngestBodies,
        declared \in UNION {DeclaredLengths(body) : body \in IngestBodies},
        forwardedFor \in ForwardedFors,
        remoteAddress \in RemoteAddresses}

\* createTraceApi(requestJson, {traceApiToken}).postTraces(request): the
\* request as it reaches the server, fetch having added the body's length
postTraces(request, traceApiToken) ==
    LET body == Body(JsonText(request), <<MaxTraceBodyBytes>>)
    IN  IncomingMessage("POST",
                        HeaderLine("X-Trace-Token", traceApiToken)
                        @@ HeaderLine("Content-Length",
                                      Some(ToDecimal(SumOf(body.chunks)))),
                        Some(DirectAddress), body)

\* the bot is configured with the backend's secret
TraceApiToken == Some(TraceSecret)

IngestInit == LensVarsInit /\ TraceVarsInit(IngestDeps)

IngestStep ==
    \E req \in IngestRequests, rateLimitResult \in RateLimitResults,
       upsertThrows \in BOOLEAN, destroyEmitsError \in BOOLEAN :
        handleTraceUpsertRequest(req, rateLimitResult, upsertThrows,
                                 destroyEmitsError)

PostTracesStep ==
    \E request \in AcceptablePayloads, rateLimitResult \in RateLimitResults,
       upsertThrows \in BOOLEAN :
        handleTraceUpsertRequest(postTraces(request, TraceApiToken),
                                 rateLimitResult, upsertThrows, FALSE)

IngestNext ==
    \/ IngestStep /\ UNCHANGED lensVars
    \/ PostTracesStep /\ UNCHANGED lensVars
    \/ ExchangeClosed /\ UNCHANGED lensVars

IngestSpec == IngestInit /\ [][IngestNext]_vars

----------------------------------------------------------------------------
(* Claims about trace ingestion *)

\* the bytes the request's body really has, and what its header declares
BodyBytes == SumOf(exchange.req.body.chunks)
Declared == Header(exchange.req, "content-length")
DeclaredNumber == IF Declared = Null THEN Null ELSE NumberOf(Get(Declared))
DeclaredAboveCap ==
    DeclaredNumber # Null /\ Get(DeclaredNumber) > deps.maxTraceBodyBytes

TooLarge == sendJson(413, ErrorBody("Trace payload too large"), {})

\* C22: a write whose body exceeds the configured maximum never reaches JSON
\* parsing, validation or the store's upsert, whatever its Content-Length
\* says (absent, no number, below the real length): once past the limiter, a
\* declared length above the maximum is answered 413 alone, before the body
\* is read; a body that exceeds the maximum while streaming is answered 413
\* first and the request is destroyed; a body of exactly the maximum size
\* passes both checks.
C22_BodyCap ==
    IsWrite /\ Admitted =>
        /\ DeclaredAboveCap => exchange.sent = <<TooLarge>> /\ exchange.settled
        /\ BodyBytes > deps.maxTraceBodyBytes =>
              /\ exchange.upsert = Null
              /\ exchange.sent[1] = TooLarge
              /\ \A i \in 1..Len(exchange.sent) :
                    exchange.sent[i].status \in {413, 500}
              /\ ~DeclaredAboveCap =>
                    \/ exchange.sent = <<TooLarge>> /\ ~exchange.settled
                    \/ Statuses(exchange) = <<413, 500>>
        /\ BodyBytes = deps.maxTraceBodyBytes /\ ~DeclaredAboveCap =>
              \A i \in 1..Len(exchange.sent) : exchange.sent[i].status # 413

C22_OversizedKeepsStore ==
    /\ exchange'.kind = "write"
    /\ SumOf(exchange'.req.body.chunks) > deps.maxTraceBodyBytes
    => records' = records

C22_OversizedNeverStored == [](C22_BodyCap) /\ [][C22_OversizedKeepsStore]_vars

\* an oversized body in two chunks behind a Content-Length of 1 was stopped
C22_Witness ==
    /\ IsWrite /\ Admitted
    /\ exchange.req.body.chunks = <<MaxTraceBodyBytes, 1>>
    /\ Declared = Some(<<"1">>)
    /\ exchange.sent = <<TooLarge>>
    /\ exchange.upsert = Null

\* a body of exactly the maximum size, declared truthfully, was stored
C22_WitnessExact ==
    /\ IsWrite /\ Admitted
    /\ BodyBytes = deps.maxTraceBodyBytes
    /\ Declared = Some(ToDecimal(MaxTraceBodyBytes))
    /\ Statuses(exchange) = <<200>>

\* the limiter was consulted in this exchange: its key and its verdict
Limited == IsWrite /\ exchange.limiter # Null
LimiterKey == Get(exchange.limiter).key
Refused == Limited /\ ~Get(exchange.limiter).result.allowed
Forwarded == Header(exchange.req, "x-forwarded-for")
RemoteAddress == exchange.req.socket.remoteAddress

\* entry is the first comma-separated entry of the header text, trimmed
IsFirstEntryOf(entry, header) ==
    \E i \in 0..Len(header) :
        /\ \A j \in 1..i : header[j] # ","
        /\ i = Len(header) \/ header[i + 1] = ","
        /\ IsTrimOf(entry, SubSeq(header, 1, i))

\* the 429 answer: retryAfter in the body, the same number in Retry-After
RefusedAnswer ==
    /\ Len(exchange.sent) = 1
    /\ exchange.sent[1].status = 429
    /\ exchange.sent[1].body.text = "Too many trace writes"
    /\ \E value \in {h[2] : h \in exchange.sent[1].headers} :
          /\ exchange.sent[1].headers = {<<"Retry-After", value>>}
          /\ NumberOf(value) = Some(exchange.sent[1].body.retryAfter)
    /\ exchange.upsert = Null

C23_RefusedKeepsStore ==
    /\ exchange'.kind = "write"
    /\ exchange'.limiter # Null
    /\ ~Get(exchange'.limiter).result.allowed
    => records' = records

\* C23 as stated: the key is the socket address when trustProxy is false or
\* the request has no X-Forwarded-For header, and the first entry of the
\* header when trustProxy is true and the header is present; a refused
\* request is answered 429 with Retry-After equal to the body's retryAfter
\* and stores nothing.
C23_KeyByTrustProxy ==
    Limited =>
        /\ ~deps.trustProxy => Some(LimiterKey) = RemoteAddress
        /\ deps.trustProxy /\ Forwarded = Null => Some(LimiterKey) = RemoteAddress
        /\ deps.trustProxy /\ Forwarded # Null =>
              IsFirstEntryOf(LimiterKey, Get(Forwarded))
        /\ Refused => RefusedAnswer

C23_LimiterKeyAsStated == [](C23_KeyByTrustProxy) /\ [][C23_RefusedKeepsStore]_vars

\* an address without the prefix of an IPv4-mapped IPv6 address
Unmapped(address) ==
    IF address # <<>> /\ address[1] = "::ffff:"
    THEN SubSeq(address, 2, Len(address))
    ELSE address

\* the key taken from the socket: its address, "unknown" when it has none
SocketKey ==
    IF RemoteAddress = Null THEN <<"unknown">> ELSE Unmapped(Get(RemoteAddress))

\* C23 (amended): the key is chosen by trustProxy alone, and is the chosen
\* address without a leading "::ffff:".  With trustProxy false the key comes
\* from the socket address ("unknown" when the socket has none) whatever
\* X-Forwarded-For says; with trustProxy true it comes from the trimmed first
\* entry of X-Forwarded-For when that header is present and not empty, and
\* from the socket address otherwise.  A refused request is answered 429
\* with Retry-After equal to the body's retryAfter and stores nothing.
C23_NormalizedKey ==
    Limited =>
        /\ ~deps.trustProxy => LimiterKey = SocketKey
        /\ deps.trustProxy /\ Forwarded \in {Null, Some(<<>>)} =>
              LimiterKey = SocketKey
        /\ deps.trustProxy /\ Forwarded \notin {Null, Some(<<>>)} =>
              \E entry \in {LimiterKey, <<"::ffff:">> \o LimiterKey} :
                  /\ IsFirstEntryOf(entry, Get(Forwarded))
                  /\ LimiterKey = Unmapped(entry)
        /\ Refused => RefusedAnswer

C23_LimiterKey == [](C23_NormalizedKey) /\ [][C23_RefusedKeepsStore]_vars

\* without trustProxy, a request naming another address in X-Forwarded-For
\* was refused under its socket address
C23_Witness ==
    /\ Refused
    /\ ~deps.trustProxy
    /\ Forwarded = Some(<<"10.0.0.9">>)
    /\ LimiterKey = DirectAddress
    /\ Statuses(exchange) = <<429>>

\* behind a proxy, the key is the first forwarded entry
C23_WitnessForwarded ==
    /\ Limited
    /\ deps.trustProxy
    /\ Forwarded = Some(<<WS, "10.0.0.9", WS, ",", "10.0.0.1">>)
    /\ LimiterKey = <<"10.0.0.9">>

\* the exchange answers a request sent by the bot's client
FromPostTraces ==
    /\ IsWrite
    /\ \E request \in AcceptablePayloads :
          exchange.req = postTraces(request, TraceApiToken)

\* the header name postTraces puts the secret under, as the server sees it
ClientTokenHeader ==
    CHOOSE n \in DOMAIN postTraces(BaseMetadata, TraceApiToken).headers :
        postTraces(BaseMetadata, TraceApiToken).headers[n] = Get(TraceApiToken)

\* C24: a POST that carries the configured secret the way postTraces sends
\* it, with a payload the strict schema accepts, is accepted with 200 (the
\* limiter admitting it and the store working): the header the client sends
\* and the header the handler reads are the same.
C24_ClientTokenAccepted ==
    FromPostTraces /\ ~Refused /\ ~exchange.threw =>
        /\ Statuses(exchange) = <<200>>
        /\ ClientTokenHeader = TRACE_TOKEN_HEADER

\* the bot's write, carrying the right secret, is answered 401
C24_ClientRejected ==
    /\ FromPostTraces
    /\ Header(exchange.req, "x-trace-token") = Some(TraceSecret)
    /\ deps.traceToken = Some(TraceSecret)
    /\ exchange.sent = <<sendJson(401, ErrorBody("Missing trace token"), {})>>

----------------------------------------------------------------------------
(* Specification of metadata validation: the schemas and the store's       *)
(* assertion applied to candidate payloads, and the write endpoint fed      *)
(* with the same candidates.                                               *)

\* assertValidResponseMetadata(value, source, responseId): returns (Null),
\* or throws an Error naming the path and the message of the first issue
assertValidResponseMetadata(value) ==
    LET parsedMetadata == ResponseMetadataSchema(value)
        firstIssue == parsedMetadata.issues[1]
    IN  IF parsedMetadata.success THEN Null
        ELSE Some([issuePath |-> IF Len(firstIssue.path) > 0 THEN firstIssue.path
                                 ELSE <<"root">>,
                   issueMessage |-> firstIssue.code])

\* candidate values in tenths: -0.1, 0, 0.5, 1, 1.2 and -1, 0, 2, 2.5
Confidences == {-1, 0, 5, 10, 12}
TradeoffCounts == {-10, 0, 20, 25}
CitationUrls == {"https://example.com/article", "not-a-url"}
ExtraFields == {Null, Some("futureField"), Some("extra")}

Candidate(responseId, confidence, tradeoffCount, url, extra) ==
    LET known ==
            With(With(With(With(BaseMetadata,
                "responseId", JString(responseId)),
                "confidence", JNumber(confidence)),
                "tradeoffCount", JNumber(tradeoffCount)),
                "citations", JArray(<<JObject(
                    ("title" :> JString("Example source"))
                 @@ ("url" :> JString(url)))>>))
    IN  IF extra = Null THEN known
        ELSE With(known, Get(extra), JString("future-backend"))

Candidates ==
    {Candidate(responseId, confidence, tradeoffCount, url, extra) :
        responseId \in {<<>>, <<"r", "1">>}, confidence \in Confidences,
        tradeoffCount \in TradeoffCounts, url \in CitationUrls,
        extra \in ExtraFields}
    \cup {Without(BaseMetadata, "responseId"),
          With(BaseMetadata, "citations", JArray(<<>>))}

\* the three validators applied to one value
Validation(value) ==
    [kind |-> "validate", value |-> value,
     read |-> ResponseMetadataSchema(value),
     write |-> PostTracesRequestSchema(value),
     asserted |-> assertValidResponseMetadata(value)]

ValidateStep ==
    \E value \in Candidates :
        /\ Idle
        /\ exchange' = Validation(value)
        /\ UNCHANGED <<deps, records, now, staleSeen>>

ValidationWriteStep ==
    \E value \in Candidates :
        handleTraceUpsertRequest(
            IncomingMessage("POST",
                            HeaderLine("X-Arete-Trace-Token", Some(TraceSecret)),
                            Some(DirectAddress),
                            Body(JsonText(value), <<1>>)),
            [allowed |-> TRUE, retryAfter |-> 0], FALSE, FALSE)

ValidationInit == LensVarsInit /\ TraceVarsInit({WorkingDeps})

ValidationNext ==
    \/ ValidateStep /\ UNCHANGED lensVars
    \/ ValidationWriteStep /\ UNCHANGED lensVars
    \/ ExchangeClosed /\ UNCHANGED lensVars

ValidationSpec == ValidationInit /\ [][ValidationNext]_vars

----------------------------------------------------------------------------
(* Claims about metadata validation *)

IsValidation == exchange.kind = "validate"

\* x without its keys outside the known metadata fields
KnownPart(x) == JObject([k \in Keys(x) \cap responseMetadataKeys |-> x.v[k]])

\* an otherwise valid payload extended with an unknown top-level key
ExtendedValid(x) ==
    /\ x.t = "object"
    /\ Keys(x) \ responseMetadataKeys # {}
    /\ PostTracesRequestSchema(KnownPart(x)).success

\* C25: write validation is strict and read validation tolerant: a valid
\* payload extended with an unknown top-level key is rejected by
\* PostTracesRequestSchema (the write endpoint answers 400 and stores
\* nothing) and accepted, extra field kept, by ResponseMetadataSchema and
\* assertValidResponseMetadata.
C25_Validators ==
    /\ IsValidation /\ ExtendedValid(exchange.value) =>
          /\ ~exchange.write.success
          /\ exchange.read.success
          /\ exchange.read.data = exchange.value
          /\ exchange.asserted = Null
    /\ IsWrite /\ ExtendedValid(Written) =>
          /\ Statuses(exchange) = <<400>>
          /\ exchange.sent[1].body.text = "Invalid trace payload"
          /\ exchange.upsert = Null

C25_RejectedKeepsStore ==
    /\ exchange'.kind = "write"
    /\ ExtendedValid(exchange'.req.body.content.value)
    => records' = records

C25_StrictWriteTolerantRead ==
    [](C25_Validators) /\ [][C25_RejectedKeepsStore]_vars

C25_Witness ==
    /\ IsValidation
    /\ ExtendedValid(exchange.value)
    /\ Field(exchange.value, "extra") = JString("future-backend")
    /\ Field(exchange.read.data, "extra") = JString("future-backend")
    /\ ~exchange.write.success

C25_WitnessWrite ==
    /\ IsWrite
    /\ ExtendedValid(Written)
    /\ Statuses(exchange) = <<400>>

\* the data-model ranges of a metadata record (numbers in tenths)
IsWhole(tenths) == tenths % 10 = 0

CitationsOf(x) == Field(x, "citations").v

InRanges(x) ==
    /\ Field(x, "responseId").t = "string" /\ Field(x, "responseId").v # <<>>
    /\ Field(x, "confidence").v \in 0..10
    /\ Field(x, "tradeoffCount").v >= 0
    /\ IsWhole(Field(x, "tradeoffCount").v)
    /\ \A i \in 1..Len(CitationsOf(x)) :
          Field(CitationsOf(x)[i], "url").v \in UrlTexts

HasBrokenCitation(x) ==
    /\ Field(x, "citations").t = "array"
    /\ Len(CitationsOf(x)) = 1
    /\ Field(CitationsOf(x)[1], "url") = JString("not-a-url")

\* C26: every record that passes validation has a non-empty responseId, a
\* confidence in [0, 1] (0 and 1 accepted, 1.2 rejected), a tradeoffCount
\* that is an integer >= 0 and citation urls that are valid absolute URLs; a
\* payload whose citation url is 'not-a-url' is rejected with an error
\* naming the citation path.
C26_ValidatedInRanges ==
    IsValidation =>
        /\ exchange.read.success => InRanges(exchange.value)
        /\ exchange.write.success => InRanges(exchange.value)
        /\ exchange.asserted = Null => InRanges(exchange.value)
        /\ Field(exchange.value, "confidence") = JNumber(12) =>
              ~exchange.read.success /\ ~exchange.write.success
        /\ /\ Field(exchange.value, "confidence").v \in {0, 10}
           /\ ResponseMetadataSchema(
                 With(exchange.value, "confidence", JNumber(5))).success
           => exchange.read.success
        /\ /\ HasBrokenCitation(exchange.value)
           /\ ResponseMetadataSchema(
                 With(exchange.value, "citations", JArray(<<>>))).success
           => /\ ~exchange.read.success /\ ~exchange.write.success
              /\ exchange.asserted # Null
              /\ Get(exchange.asserted).issuePath = <<"citations", "0", "url">>

\* a record with tradeoffCount 2.5 passed the three validators
C26_FractionAccepted ==
    /\ IsValidation
    /\ Field(exchange.value, "tradeoffCount") = JNumber(25)
    /\ exchange.read.success /\ exchange.write.success
    /\ exchange.asserted = Null

----------------------------------------------------------------------------
(* Reply recovery: from the footer message that carries the buttons to the *)
(* text of the reply it belongs to.                                        *)
(*                                                                         *)
(* A channel is the sequence of its messages, oldest first; identifiers    *)
(* grow with the time of posting.  What the platform returns for a fetch,  *)
(* and in which order, is the environment's choice.                        *)

MAX_PRECEDING_RESPONSE_MESSAGES == 16
MAX_RESPONSE_CHAIN_WINDOW_MS == 120000

MaxHistoryLen == 3

\* message.client.user.id
BotId == "bot"

DiscordMessage(id, author, content, embeds, components, reference, createdTimestamp) ==
    [id |-> id, author |-> author, content |-> content, embeds |-> embeds,
     components |-> components, reference |-> reference,
     createdTimestamp |-> createdTimestamp]

\* message.content?.trim() is truthy
HasContent(message) == Trim(message.content) # <<>>

Reverse(s) == [i \in 1..Len(s) |-> s[Len(s) + 1 - i]]

\* channel.messages.fetch({before, limit}): the newest `limit` messages older
\* than `before`, here oldest first
FetchBefore(channel, before, limit) ==
    LET older == SelectSeq(channel, LAMBDA m : m.id < before)
        first == IF Len(older) > limit THEN Len(older) - limit + 1 ELSE 1
    IN  SubSeq(older, first, Len(older))

\* the order in which the platform hands the fetched messages over
HandedOver(fetched, order) ==
    CASE order = "oldest-first" -> fetched
      [] order = "newest-first" -> Reverse(fetched)
      [] order = "rotated" ->
            IF fetched = <<>> THEN fetched ELSE Tail(fetched) \o <<Head(fetched)>>

\* Array.prototype.sort((a, b) => b.createdTimestamp - a.createdTimestamp),
\* a stable sort
RECURSIVE InsertDescending(_, _)
InsertDescending(sorted, m) ==
    IF sorted = <<>> THEN <<m>>
    ELSE IF Head(sorted).createdTimestamp >= m.createdTimestamp
         THEN <<Head(sorted)>> \o InsertDescending(Tail(sorted), m)
         ELSE <<m>> \o sorted

RECURSIVE SortDescending(_)
SortDescending(s) ==
    IF s = <<>> THEN <<>>
    ELSE InsertDescending(SortDescending(SubSeq(s, 1, Len(s) - 1)), s[Len(s)])

\* channel.messages.fetch(referencedId): the message, or Null when the call
\* throws (the message is gone, or the platform fails)
FetchMessage(channel, id, outcome) ==
    IF outcome = "ok" /\ \E i \in 1..Len(channel) : channel[i].id = id
    THEN Some(channel[CHOOSE i \in 1..Len(channel) : channel[i].id = id])
    ELSE Null

\* mutation: the scan skips over messages with embeds or components
RECURSIVE ScanForAnchor_skipping(_)
ScanForAnchor_skipping(ordered) ==
    IF ordered = <<>> THEN Null
    ELSE LET candidate == Head(ordered)
         IN  IF candidate.author # BotId THEN Null
             ELSE IF candidate.embeds = 0 /\ candidate.components = 0
                     /\ HasContent(candidate)
                  THEN Some(candidate)
                  ELSE ScanForAnchor_skipping(Tail(ordered))

\* the loop over the preceding messages, newest first
RECURSIVE ScanForAnchor(_)
ScanForAnchor(ordered) ==
    IF ordered = <<>> THEN Null
    ELSE LET candidate == Head(ordered)
         IN  IF candidate.author # BotId THEN Null
             ELSE IF candidate.embeds > 0 \/ candidate.components > 0 THEN Null
             ELSE IF HasContent(candidate) THEN Some(candidate)
             ELSE ScanForAnchor(Tail(ordered))

resolveResponseAnchorMessage(message, channel, env) ==
    LET referencedId == message.reference
        referenced == IF referencedId = Null THEN Null
                      ELSE FetchMessage(channel, Get(referencedId), env.referenced)
        previousMessages ==
            HandedOver(FetchBefore(channel, message.id,
                                 MAX_PRECEDING_RESPONSE_MESSAGES), env.order)
        ordered == SortDescending(previousMessages)
    IN  IF HasContent(message) THEN Some(message)
        ELSE IF referenced # Null THEN referenced
        ELSE IF env.scan # "ok" THEN Null
        ELSE ScanForAnchor(ordered)

\* chunks.join('\n\n').trim()
RECURSIVE Join(_)
Join(chunks) ==
    IF chunks = <<>> THEN <<>>
    ELSE IF Len(chunks) = 1 THEN chunks[1]
    ELSE chunks[1] \o <<"\n\n">> \o Join(Tail(chunks))

\* mutation: the chunks are appended as the walk meets them, newest first
RECURSIVE Stitch_appending(_, _, _)
Stitch_appending(ordered, anchor, chunks) ==
    IF ordered = <<>> THEN chunks
    ELSE LET candidate == Head(ordered)
             content == Trim(candidate.content)
         IN  IF candidate.author # BotId THEN chunks
             ELSE IF candidate.embeds > 0 \/ candidate.components > 0 THEN chunks
             ELSE IF content = <<>> THEN chunks
             ELSE IF anchor.createdTimestamp - candidate.createdTimestamp
                        > MAX_RESPONSE_CHAIN_WINDOW_MS
                  THEN chunks
             ELSE IF candidate.reference # Null THEN chunks \o <<content>>
             ELSE Stitch_appending(Tail(ordered), anchor, chunks \o <<content>>)

\* mutation: the gap is measured from the chunk stitched last
RECURSIVE Stitch_neighbour(_, _, _)
Stitch_neighbour(ordered, anchor, chunks) ==
    IF ordered = <<>> THEN chunks
    ELSE LET candidate == Head(ordered)
             content == Trim(candidate.content)
         IN  IF candidate.author # BotId THEN chunks
             ELSE IF candidate.embeds > 0 \/ candidate.components > 0 THEN chunks
             ELSE IF content = <<>> THEN chunks
             ELSE IF anchor.createdTimestamp - candidate.createdTimestamp
                        > MAX_RESPONSE_CHAIN_WINDOW_MS
                  THEN chunks
             ELSE IF candidate.reference # Null THEN <<content>> \o chunks
             ELSE Stitch_neighbour(Tail(ordered), candidate, <<content>> \o chunks)

\* mutation: the walk goes on behind a candidate that is a threaded reply
RECURSIVE Stitch_through(_, _, _)
Stitch_through(ordered, anchor, chunks) ==
    IF ordered = <<>> THEN chunks
    ELSE LET candidate == Head(ordered)
             content == Trim(candidate.content)
         IN  IF candidate.author # BotId THEN chunks
             ELSE IF candidate.embeds > 0 \/ candidate.components > 0 THEN chunks
             ELSE IF content = <<>> THEN chunks
             ELSE IF anchor.createdTimestamp - candidate.createdTimestamp
                        > MAX_RESPONSE_CHAIN_WINDOW_MS
                  THEN chunks
             ELSE Stitch_through(Tail(ordered), anchor, <<content>> \o chunks)

\* mutation: the walk passes over a candidate of another author or with
\* embeds or components instead of stopping there
RECURSIVE Stitch_skipping(_, _, _)
Stitch_skipping(ordered, anchor, chunks) ==
    IF ordered = <<>> THEN chunks
    ELSE LET candidate == Head(ordered)
             content == Trim(candidate.content)
         IN  IF candidate.author # BotId
             THEN Stitch_skipping(Tail(ordered), anchor, chunks)
             ELSE IF candidate.embeds > 0 \/ candidate.components > 0
             THEN Stitch_skipping(Tail(ordered), anchor, chunks)
             ELSE IF content = <<>> THEN chunks
             ELSE IF anchor.createdTimestamp - candidate.createdTimestamp
                        > MAX_RESPONSE_CHAIN_WINDOW_MS
                  THEN chunks
             ELSE IF candidate.reference # Null THEN <<content>> \o chunks
             ELSE Stitch_skipping(Tail(ordered), anchor, <<content>> \o chunks)

\* the backward walk from the anchor: each eligible candidate is put in
\* front of the chunks collected so far
RECURSIVE Stitch(_, _, _)
Stitch(ordered, anchor, chunks) ==
    IF ordered = <<>> THEN chunks
    ELSE LET candidate == Head(ordered)
             content == Trim(candidate.content)
         IN  IF candidate.author # BotId THEN chunks
             ELSE IF candidate.embeds > 0 \/ candidate.components > 0 THEN chunks
             ELSE IF content = <<>> THEN chunks
             ELSE IF anchor.createdTimestamp - candidate.createdTimestamp
                        > MAX_RESPONSE_CHAIN_WINDOW_MS
                  THEN chunks
             ELSE IF candidate.reference # Null THEN <<content>> \o chunks
             ELSE Stitch(Tail(ordered), anchor, <<content>> \o chunks)

\* the chunks of the reply: the anchor's content and what is stitched in
\* front of it
recoverChunks(message, anchorMessage, channel, env) ==
    LET resolved == IF anchorMessage # Null THEN anchorMessage
                    ELSE resolveResponseAnchorMessage(message, channel, env)
        anchor == Get(resolved)
        anchorContent == Trim(anchor.content)
        chunks == IF anchorContent # <<>> THEN <<anchorContent>> ELSE <<>>
        previousMessages ==
            HandedOver(FetchBefore(channel, anchor.id,
                                 MAX_PRECEDING_RESPONSE_MESSAGES), env.order)
        ordered == SortDescending(previousMessages)
    IN  IF resolved = Null THEN <<>>
        ELSE IF anchor.reference # Null /\ Len(chunks) > 0 THEN chunks
        ELSE IF env.stitch # "ok" THEN chunks
        ELSE Stitch(ordered, anchor, chunks)

recoverFullMessageText(message, anchorMessage, channel, env) ==
    Trim(Join(recoverChunks(message, anchorMessage, channel, env)))

----------------------------------------------------------------------------
(* Specification of reply recovery: Init's two lookups against channels    *)
(* of a few messages and against long runs of bot messages.                *)

\* what was posted: plain bot text, bot text sent as a threaded reply, a bot
\* message without text (alone or as a threaded reply), bot text with an
\* embed or with components, and a user's message; with the time that
\* passed until the next message was posted
Postings ==
    {<<kind, 1>> : kind \in {"plain", "reply", "blank", "blank-reply", "embed",
                              "components", "user"}}
    \cup {<<kind, MAX_RESPONSE_CHAIN_WINDOW_MS \div 2>> : kind \in {"plain", "reply"}}

LongRuns == {MAX_PRECEDING_RESPONSE_MESSAGES, MAX_PRECEDING_RESPONSE_MESSAGES + 1}

Histories ==
    UNION {[1..n -> Postings] : n \in 0..MaxHistoryLen}
    \cup {[i \in 1..n |-> <<"plain", 1>>] : n \in LongRuns}
    \cup {[i \in 1..n |-> IF i = 1 THEN <<"plain", 1>> ELSE <<"blank", 1>>] :
            n \in LongRuns}

\* the text of message id, with blanks around it
ContentOf(id) == <<WS, ToString(id), WS>>

RECURSIVE PostedAt(_, _)
PostedAt(history, i) ==
    IF i = 1 THEN 0 ELSE PostedAt(history, i - 1) + history[i - 1][2]

\* identifier 0 is a message that is no longer in the channel
Posted(id, kind, createdTimestamp) ==
    DiscordMessage(id,
                   IF kind = "user" THEN "user" ELSE BotId,
                   IF kind \in {"blank", "blank-reply"} THEN <<WS>> ELSE ContentOf(id),
                   IF kind = "embed" THEN 1 ELSE 0,
                   IF kind = "components" THEN 1 ELSE 0,
                   IF kind \in {"reply", "blank-reply"} THEN Some(0) ELSE Null,
                   createdTimestamp)

ChannelOf(history) ==
    [i \in 1..Len(history) |-> Posted(i, history[i][1], PostedAt(history, i))]

\* the footer: the bot's newest message, which carries the buttons
FooterOf(history, hasContent, reference) ==
    DiscordMessage(Len(history) + 1, BotId,
                   IF hasContent THEN ContentOf(Len(history) + 1) ELSE <<>>,
                   0, 1, reference, PostedAt(history, Len(history) + 1))

FooterShapes(history) ==
    {<<FALSE, Null>>, <<TRUE, Null>>}
    \cup (IF Len(history) > MaxHistoryLen THEN {}
          ELSE {<<FALSE, Some(id)>> : id \in 0..Len(history)}
               \cup {<<TRUE, Some(id)>> : id \in {Len(history)} \ {0}})

\* what the platform does with the three fetches, and the order of a history
LookupEnv(order, referenced, scan, stitch) ==
    [order |-> order, referenced |-> referenced, scan |-> scan, stitch |-> stitch]

LookupEnvs ==
    {LookupEnv(order, "ok", "ok", "ok") :
        order \in {"newest-first", "oldest-first", "rotated"}}
    \cup {LookupEnv("newest-first", "throws", "ok", "ok"),
          LookupEnv("newest-first", "ok", "throws", "ok"),
          LookupEnv("newest-first", "ok", "ok", "throws")}

\* the fetches that the two functions made and that threw: the referenced
\* message (also when it is gone), the history before the footer, the
\* history before the anchor
FailedFetches(message, channel, env) ==
    LET anchorMessage == resolveResponseAnchorMessage(message, channel, env)
        referenced == IF message.reference = Null THEN Null
                      ELSE FetchMessage(channel, Get(message.reference),
                                        env.referenced)
    IN  (IF ~HasContent(message) /\ message.reference # Null /\ referenced = Null
         THEN {"referenced"} ELSE {})
        \cup (IF ~HasContent(message) /\ referenced = Null /\ env.scan # "ok"
              THEN {"scan"} ELSE {})
        \cup (IF /\ anchorMessage # Null
                 /\ ~(Get(anchorMessage).reference # Null
                        /\ HasContent(Get(anchorMessage)))
                 /\ env.stitch # "ok"
              THEN {"stitch"} ELSE {})

\* mutation: the history fetch of the stitching stands outside a try block
Caught_exceptStitch == {"referenced", "scan"}

\* the fetches that stand in a try block whose catch logs and goes on
Caught == {"referenced", "scan", "stitch"}

\* handleAlternativeLensButton: resolve the anchor, then recover the text;
\* threw: one of the two calls rejected
Recovery(message, channel, env) ==
    LET anchorMessage == resolveResponseAnchorMessage(message, channel, env)
    IN  [kind |-> "recover", message |-> message, channel |-> channel,
         env |-> env, anchor |-> anchorMessage,
         text |-> recoverFullMessageText(message, anchorMessage, channel, env),
         failed |-> FailedFetches(message, channel, env),
         threw |-> FailedFetches(message, channel, env) \ Caught # {}]

RecoverStep ==
    /\ Idle
    /\ \E history \in Histories :
          \E shape \in FooterShapes(history), env \in LookupEnvs :
              exchange' = Recovery(FooterOf(history, shape[1], shape[2]),
                                   ChannelOf(history), env)
    /\ UNCHANGED <<deps, records, now, staleSeen>>

RecoveryInit == LensVarsInit /\ TraceVarsInit({WorkingDeps})

RecoveryNext ==
    \/ RecoverStep /\ UNCHANGED lensVars
    \/ ExchangeClosed /\ UNCHANGED lensVars

RecoverySpec == RecoveryInit /\ [][RecoveryNext]_vars

----------------------------------------------------------------------------
(* Claims about reply recovery *)

IsRecovery == exchange.kind = "recover"
LookupsWork ==
    /\ exchange.env.referenced = "ok"
    /\ exchange.env.scan = "ok"
    /\ exchange.env.stitch = "ok"

\* the k-th message before the message with identifier id, counted from the
\* newest (identifiers are positions in the channel)
Before(id, k) == exchange.channel[id - k]
Reach(id) ==
    IF id - 1 > MAX_PRECEDING_RESPONSE_MESSAGES
    THEN MAX_PRECEDING_RESPONSE_MESSAGES ELSE id - 1

IsPlain(m) == m.author = BotId /\ m.embeds = 0 /\ m.components = 0

\* the k-th message before the footer is the anchor of rule 3
ScanAnchor(k) ==
    /\ IsPlain(Before(exchange.message.id, k))
    /\ HasContent(Before(exchange.message.id, k))
    /\ \A j \in 1..(k - 1) :
          /\ IsPlain(Before(exchange.message.id, j))
          /\ ~HasContent(Before(exchange.message.id, j))

\* C27: the anchor is (1) the footer itself when it has non-blank content;
\* (2) else, when the footer is a threaded reply, the message it refers to
\* (as the platform returns it); (3) else, among at most 16 messages before
\* the footer taken newest first, the first bot message with non-blank
\* content that, like every newer one, has no embeds or components and
\* follows only bot messages; when the scan meets a message of another
\* author or one with embeds or components first, or no such message among
\* the 16, there is no anchor.
C27_AnchorRules ==
    IsRecovery /\ LookupsWork =>
        LET footer == exchange.message
            referred == {exchange.channel[i] : i \in {j \in 1..Len(exchange.channel) :
                            footer.reference = Some(exchange.channel[j].id)}}
            found == {k \in 1..Reach(footer.id) : ScanAnchor(k)}
        IN  /\ HasContent(footer) => exchange.anchor = Some(footer)
            /\ ~HasContent(footer) /\ referred # {} => exchange.anchor = referred
            /\ ~HasContent(footer) /\ footer.reference = Null =>
                  /\ \A k \in found :
                        exchange.anchor = Some(Before(footer.id, k))
                  /\ found = {} => exchange.anchor = Null

\* a blank bot message was passed over and the one before it is the anchor
C27_Witness ==
    /\ IsRecovery /\ LookupsWork
    /\ ~HasContent(exchange.message)
    /\ exchange.message.reference = Null
    /\ Len(exchange.channel) = 3
    /\ ~HasContent(exchange.channel[3])
    /\ exchange.channel[1].author = "user"
    /\ exchange.anchor = Some(exchange.channel[2])

\* the seventeenth message back is out of the scan's reach
C27_WitnessReach ==
    /\ IsRecovery /\ LookupsWork
    /\ Len(exchange.channel) = MAX_PRECEDING_RESPONSE_MESSAGES + 1
    /\ HasContent(exchange.channel[1])
    /\ ~HasContent(exchange.message)
    /\ exchange.anchor = Null

\* the message of the channel (or the footer) with this identifier
Channel == exchange.channel
Anchor == Get(exchange.anchor)
Earlier == {Channel[i] : i \in 1..Len(Channel)}

\* the text holds the content of message m
Contributes(m) ==
    \E i \in 1..Len(exchange.text) : <<exchange.text[i]>> = Trim(m.content)

\* the identifier of the message whose content stands at position i
ChunkAt(i) ==
    CHOOSE id \in 1..(Len(Channel) + 1) : ToString(id) = exchange.text[i]

ThreePlainMessages ==
    /\ Len(Channel) = 3
    /\ \A i \in 1..3 :
          /\ IsPlain(Channel[i]) /\ HasContent(Channel[i])
          /\ Channel[i].reference = Null
    /\ ~HasContent(exchange.message)
    /\ exchange.message.reference = Null

\* C28: the recovered text is the contents of the stitched messages and
\* then the anchor's content, oldest first and the anchor last, each
\* trimmed, separated by one blank line; three consecutive plain bot
\* messages followed by a footer without text give all three bodies in the
\* order of posting, in whatever order the history fetch returns them.
C28_ChronologicalJoin ==
    IsRecovery /\ exchange.anchor # Null =>
        LET text == exchange.text
            chunks == {i \in 1..Len(text) : i % 2 = 1}
        IN  /\ text # <<>> => Len(text) % 2 = 1
            /\ \A i \in 1..Len(text) : i % 2 = 0 => text[i] = "\n\n"
            /\ \A i \in chunks :
                  \E m \in Earlier \cup {exchange.message} :
                      /\ <<text[i]>> = Trim(m.content)
                      /\ m.id <= Anchor.id
            /\ \A i, j \in chunks : i < j => ChunkAt(i) < ChunkAt(j)
            /\ IF HasContent(Anchor)
               THEN text # <<>> /\ <<text[Len(text)]>> = Trim(Anchor.content)
               ELSE \A i \in chunks : ChunkAt(i) < Anchor.id
            /\ ThreePlainMessages /\ LookupsWork =>
                  text = <<"1", "\n\n", "2", "\n\n", "3">>

\* three bodies in posting order, from a history handed over oldest first
C28_Witness ==
    /\ IsRecovery
    /\ ThreePlainMessages /\ LookupsWork
    /\ exchange.env.order = "oldest-first"
    /\ exchange.anchor = Some(Channel[3])
    /\ exchange.text = <<"1", "\n\n", "2", "\n\n", "3">>

Gap(m) == Anchor.createdTimestamp - m.createdTimestamp

\* the anchor is a threaded reply with text of its own
AnchorIsWholeReply == Anchor.reference # Null /\ HasContent(Anchor)

\* C29: no message created more than 120000 ms before the anchor is part of
\* the recovered text, the gap being taken from the anchor and not from the
\* chunk stitched last; nothing older than the first candidate beyond the
\* window is stitched; a candidate exactly 120000 ms older than the anchor
\* is still eligible.
C29_TimeBound ==
    IsRecovery /\ exchange.anchor # Null =>
        /\ \A m \in Earlier :
              m.id < Anchor.id /\ Contributes(m) =>
                  Gap(m) <= MAX_RESPONSE_CHAIN_WINDOW_MS
        /\ \A m, older \in Earlier :
              /\ older.id < m.id /\ m.id < Anchor.id
              /\ Gap(m) > MAX_RESPONSE_CHAIN_WINDOW_MS
              => ~Contributes(older)
        /\ \A k \in 1..Reach(Anchor.id) :
              /\ exchange.env.stitch = "ok"
              /\ ~AnchorIsWholeReply
              /\ \A j \in 1..k :
                    /\ IsPlain(Before(Anchor.id, j))
                    /\ HasContent(Before(Anchor.id, j))
                    /\ j < k => Before(Anchor.id, j).reference = Null
              /\ Gap(Before(Anchor.id, k)) = MAX_RESPONSE_CHAIN_WINDOW_MS
              => Contributes(Before(Anchor.id, k))

\* a chunk exactly 120000 ms older than the anchor is stitched; the one
\* before it, 60000 ms from that chunk and 180000 ms from the anchor, is not
C29_Witness ==
    /\ IsRecovery /\ exchange.anchor # Null
    /\ Len(Channel) = 3
    /\ Anchor.id = 4
    /\ Gap(Channel[2]) = MAX_RESPONSE_CHAIN_WINDOW_MS
    /\ Contributes(Channel[2])
    /\ IsPlain(Channel[1]) /\ HasContent(Channel[1])
    /\ Channel[2].createdTimestamp - Channel[1].createdTimestamp
          <= MAX_RESPONSE_CHAIN_WINDOW_MS
    /\ Channel[2].reference = Null
    /\ ~Contributes(Channel[1])

\* C30: when the anchor is itself a threaded reply, the recovered text is
\* the anchor's content alone; otherwise the backward walk stops right
\* after the newest candidate that is a threaded reply, so that no message
\* older than that candidate is part of the text.
C30_ReplyBoundary ==
    IsRecovery /\ exchange.anchor # Null =>
        /\ Anchor.reference # Null => exchange.text = Trim(Anchor.content)
        /\ Anchor.reference = Null =>
              \A m, older \in Earlier :
                  /\ older.id < m.id /\ m.id < Anchor.id
                  /\ m.reference # Null /\ Contributes(m)
                  => ~Contributes(older)

\* the same, for anchors that have text of their own
C30_ReplyBoundaryOfTextAnchors ==
    IsRecovery /\ exchange.anchor # Null /\ HasContent(Anchor) => C30_ReplyBoundary

\* the anchor is a threaded reply without text and an older message is
\* returned as the reply
C30_BlankReplyAnchorStitched ==
    /\ IsRecovery /\ exchange.anchor # Null
    /\ Anchor.reference # Null
    /\ ~HasContent(Anchor)
    /\ exchange.text # <<>>
    /\ \E m \in Earlier : m.id < Anchor.id /\ Contributes(m)

\* the walk stopped behind a threaded reply
C30_WitnessWalk ==
    /\ IsRecovery /\ exchange.anchor # Null
    /\ Anchor.reference = Null
    /\ Len(Channel) = 3
    /\ Anchor = Channel[3]
    /\ Channel[2].reference # Null /\ Contributes(Channel[2])
    /\ IsPlain(Channel[1]) /\ HasContent(Channel[1])
    /\ ~Contributes(Channel[1])

\* the messages stitched in front of the anchor
Stitched == {m \in Earlier : m.id < Anchor.id /\ Contributes(m)}

\* C31: every message stitched in front of the anchor is written by the bot,
\* has non-blank content and carries no embeds or components; the stitched
\* messages are at most 16 and form an unbroken run that ends right before
\* the anchor; nothing at or older than the first candidate that is not
\* bot-authored or carries embeds or components is part of the text.
C31_StitchedRun ==
    IsRecovery /\ exchange.anchor # Null =>
        /\ \A m \in Stitched : IsPlain(m) /\ HasContent(m)
        /\ Cardinality(Stitched) <= MAX_PRECEDING_RESPONSE_MESSAGES
        /\ \A m \in Stitched, between \in Earlier :
              m.id < between.id /\ between.id < Anchor.id => between \in Stitched
        /\ \A candidate, older \in Earlier :
              /\ candidate.id < Anchor.id
              /\ ~IsPlain(candidate)
              /\ older.id <= candidate.id
              => ~Contributes(older)

\* sixteen messages are stitched in front of a footer with text of its own
\* and the seventeenth back, as eligible as the others, is left out
C31_Witness ==
    /\ IsRecovery /\ exchange.anchor = Some(exchange.message)
    /\ exchange.env.stitch = "ok"
    /\ Len(Channel) = MAX_PRECEDING_RESPONSE_MESSAGES + 1
    /\ Cardinality(Stitched) = MAX_PRECEDING_RESPONSE_MESSAGES
    /\ IsPlain(Channel[1]) /\ HasContent(Channel[1])
    /\ ~Contributes(Channel[1])

\* the walk stopped at a user's message: the bot message behind it is left out
C31_WitnessStop ==
    /\ IsRecovery /\ exchange.anchor # Null
    /\ Len(Channel) = 3
    /\ Anchor = Channel[3]
    /\ Channel[2].author # BotId
    /\ IsPlain(Channel[1]) /\ HasContent(Channel[1])
    /\ Stitched = {}
    /\ exchange.text = Trim(Anchor.content)

\* C32: the two lookups fail open: neither call rejects; when the fetch of
\* the referenced message fails, the anchor is the one the history scan
\* finds; when the history scan fails there is no anchor and the text is
\* empty; when the history fetch of the stitching fails, the text is the
\* anchor's own content.
C32_FailOpen ==
    IsRecovery =>
        LET footer == exchange.message
            found == {k \in 1..Reach(footer.id) : ScanAnchor(k)}
        IN  /\ ~exchange.threw
            /\ "referenced" \in exchange.failed /\ exchange.env.scan = "ok" =>
                  /\ \A k \in found : exchange.anchor = Some(Before(footer.id, k))
                  /\ found = {} => exchange.anchor = Null
            /\ "scan" \in exchange.failed =>
                  exchange.anchor = Null /\ exchange.text = <<>>
            /\ "stitch" \in exchange.failed =>
                  exchange.text = Trim(Anchor.content)

\* the referenced message could not be fetched though it is in the channel,
\* and the scan found another message as the anchor
C32_Witness ==
    /\ IsRecovery
    /\ exchange.env.referenced = "throws"
    /\ exchange.failed = {"referenced"}
    /\ \E i \in 1..Len(Channel) : exchange.message.reference = Some(Channel[i].id)
    /\ exchange.anchor # Null
    /\ exchange.message.reference # Some(Anchor.id)
    /\ exchange.text # <<>>

\* the history scan threw: no anchor, empty text
C32_WitnessScan ==
    /\ IsRecovery
    /\ "scan" \in exchange.failed
    /\ Len(Channel) > 0
    /\ IsPlain(Channel[Len(Channel)]) /\ HasContent(Channel[Len(Channel)])
    /\ exchange.text = <<>>

\* the history fetch of the stitching threw before an eligible message
C32_WitnessStitch ==
    /\ IsRecovery
    /\ exchange.failed = {"stitch"}
    /\ HasContent(Anchor)
    /\ Anchor.id > 1
    /\ IsPlain(Before(Anchor.id, 1)) /\ HasContent(Before(Anchor.id, 1))
    /\ exchange.text = Trim(Anchor.content)

\* the anchor was taken by rule 2: the footer has no text and the message
\* it refers to was fetched
AnchorByReference ==
    /\ ~HasContent(exchange.message)
    /\ exchange.anchor # Null
    /\ exchange.message.reference = Some(Anchor.id)

\* C40: every content in the recovered text, the anchor's included, is the
\* content of a message written by the bot, under each of the three anchor
\* rules.
C40_BotAuthoredText ==
    IsRecovery =>
        \A m \in Earlier \cup {exchange.message} :
            Contributes(m) => m.author = BotId

\* the same, for anchors taken by rule 1 or by rule 3
C40_BotAuthoredUnlessReferred ==
    IsRecovery /\ ~AnchorByReference => C40_BotAuthoredText

\* the footer is a threaded reply to a user's message, whose content is
\* returned as the reply
C40_UserTextRecovered ==
    /\ IsRecovery /\ AnchorByReference
    /\ Anchor.author # BotId
    /\ exchange.text = Trim(Anchor.content)
    /\ exchange.text # <<>>

----------------------------------------------------------------------------
(* The trace lookup of Init *)

\* the characters of the modelled footer texts and their regex classes
WordChars == {"m", "p", "r", "1", "_"}
DotDash == {".", "-"}
FooterFields == <<WordChars \cup DotDash, {" ", "|"} \cup DotDash,
                  WordChars \cup DotDash, {" ", "|"} \cup DotDash,
                  WordChars \cup {"-"}, {" ", "|"} \cup DotDash>>

\* the longest run of characters of a class that starts at pos
RECURSIVE RunLength(_, _, _)
RunLength(text, pos, class) ==
    IF pos > Len(text) \/ text[pos] \notin class THEN 0
    ELSE 1 + RunLength(text, pos + 1, class)

\* the lengths that the fields k, k+1, ... take when the pattern matches at
\* pos, each field as long as the rest of the match allows; Null: no match
RECURSIVE MatchFields(_, _, _)
MatchFields(text, pos, k) ==
    IF k > Len(FooterFields) THEN Some(<<>>)
    ELSE LET fitting == {n \in 1..RunLength(text, pos, FooterFields[k]) :
                            MatchFields(text, pos + n, k + 1) # Null}
             longest == CHOOSE n \in fitting : \A o \in fitting : o <= n
         IN  IF fitting = {} THEN Null
             ELSE Some(<<longest>> \o Get(MatchFields(text, pos + longest, k + 1)))

\* footerText.match(/^([\w.-]+)\W+([\w.-]+)\W+([\w-]+)\W+/)?.[3] ?? null
extractResponseIdFromFooterText(footerText) ==
    IF footerText = Null \/ Get(footerText) = <<>> THEN Null
    ELSE LET match == MatchFields(Get(footerText), 1, 1)
             lengths == Get(match)
             start == lengths[1] + lengths[2] + lengths[3] + lengths[4]
         IN  IF match = Null THEN Null
             ELSE Some(SubSeq(Get(footerText), start + 1, start + lengths[5]))

\* the first embed whose footer text gives an identifier
RECURSIVE deriveResponseIdFromMessage(_)
deriveResponseIdFromMessage(embeds) ==
    IF embeds = <<>> THEN Null
    ELSE IF extractResponseIdFromFooterText(Head(embeds)) # Null
         THEN extractResponseIdFromFooterText(Head(embeds))
         ELSE deriveResponseIdFromMessage(Tail(embeds))

\* what fetch(`${backendBaseUrl}/api/traces/${responseId}`) does
NetworkError == [kind |-> "network_error"]
Fetched(response) == [kind |-> "response", response |-> response]

\* a body that is not JSON, as an intermediary's error page
GarbageBody ==
    [shape |-> "garbage", text |-> "<html>", details |-> Null,
     responseId |-> Null, metadata |-> Null]

\* response.ok
ResponseOk(response) == response.status >= 200 /\ response.status <= 299

\* response.json(): Null when the body is not JSON (the promise rejects)
ResponseJson(response) ==
    IF response.body.shape = "garbage" THEN Null
    ELSE IF response.body.shape = "metadata" THEN response.body.metadata
    ELSE Some(response.body)

\* mutation: the metadata of a stale envelope is handed on
resolveProvenanceMetadata_readingStale(embeds, fetched) ==
    LET responseId == deriveResponseIdFromMessage(embeds)
    IN  IF responseId = Null THEN [responseId |-> Null, metadata |-> Null]
        ELSE IF fetched.kind = "network_error"
        THEN [responseId |-> responseId, metadata |-> Null]
        ELSE IF fetched.response.status = 410
        THEN [responseId |-> responseId, metadata |-> fetched.response.body.metadata]
        ELSE IF ~ResponseOk(fetched.response)
        THEN [responseId |-> responseId, metadata |-> Null]
        ELSE [responseId |-> responseId, metadata |-> ResponseJson(fetched.response)]

\* mutation: a non-success status is not looked at
resolveProvenanceMetadata_anyStatus(embeds, fetched) ==
    LET responseId == deriveResponseIdFromMessage(embeds)
    IN  IF responseId = Null THEN [responseId |-> Null, metadata |-> Null]
        ELSE IF fetched.kind = "network_error"
        THEN [responseId |-> responseId, metadata |-> Null]
        ELSE [responseId |-> responseId, metadata |-> ResponseJson(fetched.response)]

\* embeds are the footer texts of the message's embeds
resolveProvenanceMetadata(embeds, fetched) ==
    LET responseId == deriveResponseIdFromMessage(embeds)
    IN  IF responseId = Null THEN [responseId |-> Null, metadata |-> Null]
        ELSE IF fetched.kind = "network_error"
        THEN [responseId |-> responseId, metadata |-> Null]
        ELSE IF ~ResponseOk(fetched.response)
        THEN [responseId |-> responseId, metadata |-> Null]
        ELSE [responseId |-> responseId, metadata |-> ResponseJson(fetched.response)]

----------------------------------------------------------------------------
(* Specification of Init with its trace lookup: one user clicks the button *)
(* on messages with different footers, the backend answers the lookup in   *)
(* every way, and the session is used afterwards.                          *)

\* the embeds of the clicked message, as their footer texts
MessageEmbeds ==
    {<<>>,
     <<Null>>,
     <<Some(<<>>)>>,
     <<Some(<<"m", " ", "|", " ", "p", " ", "|", " ", "r", "1", " ", "|">>)>>,
     <<Some(<<"m", ".", "1", "|", "p", "|", "r", "-", "1", "|">>)>>,
     <<Some(<<"m", "|", "p", "|", "r", "1">>)>>,
     <<Some(<<"m", "|", "p", "|", "r", "-">>)>>,
     <<Null, Some(<<"m", "|", "p", "|", "r", "1", "|">>)>>}

LookupMetadata == Metadata(<<"r", "1">>, IsoInstants[2])

\* the answers of the read endpoint, an answer that is not JSON, no answer
FetchOutcomes ==
    {NetworkError,
     Fetched(sendJson(200, MetadataBody(LookupMetadata), {})),
     Fetched(sendJson(404, ErrorBody("Trace not found"), {})),
     Fetched(sendJson(410, StaleBody(LookupMetadata), {})),
     Fetched(sendJson(500, ErrorBody("Failed to read trace"), {})),
     Fetched(sendJson(503, ErrorBody("Trace store unavailable"), {})),
     Fetched(sendJson(200, GarbageBody, {})),
     Fetched(sendJson(502, GarbageBody, {}))}

\* handleAlternativeLensButton with the lookup it makes
LookupInteraction(u, m, text, embeds, fetched, first, second) ==
    LET lookup == resolveProvenanceMetadata(embeds, fetched)
    IN  /\ Idle
        /\ handleAlternativeLensButton(u, m, text, lookup)
        /\ exchange' = [kind |-> "init", user |-> u, msg |-> m, input |-> text,
                        replies |-> ButtonReplies(text, first, second),
                        sent |-> <<>>, threw |-> FALSE,
                        embeds |-> embeds, fetched |-> fetched, lookup |-> lookup]
        /\ UNCHANGED <<deps, records, now, staleSeen>>

LookupPlatforms == {p \in FlowPlatforms : p.reply \in {Resolved(MessageValue), Thrown(UnknownInteraction)}}

\* no fetch is made for a message that gives no identifier
NotFetched == [kind |-> "none"]

\* the button is clicked while no Submit of this user is running; a message
\* without recoverable text is given no lookup
LookupButtonStep ==
    /\ submit[1].pc = "idle"
    /\ \E text \in RecoveredTexts, first \in LookupPlatforms :
          \E embeds \in IF text = <<>> THEN {<<>>} ELSE MessageEmbeds,
             second \in SecondPlatforms(first) \cap LookupPlatforms :
              \E fetched \in IF deriveResponseIdFromMessage(embeds) = Null
                             THEN {NotFetched} ELSE FetchOutcomes :
                  LookupInteraction("u1", "m1", text, embeds, fetched, first, second)

LookupSelectStep ==
    \E selected \in {Some("UTILITARIAN")} :
        handleAlternativeLensSelect("u1", "m1", selected)

LookupSubmitStartStep ==
    \E replyThrows \in BOOLEAN : SubmitStart(1, "u1", "m1", replyThrows)

LookupNext ==
    \/ NoneDone /\ LookupButtonStep
    \/ NoneDone /\ LookupSelectStep /\ Quiet
    \/ NoneDone /\ LookupSubmitStartStep /\ Quiet
    \/ NoneDone /\ SubmitAckOk(1) /\ Quiet
    \/ NoneDone /\ (\E sendable \in BOOLEAN : SubmitTryCompleted(1, sendable)) /\ Quiet
    \/ NoneDone /\ SubmitTryThrew(1) /\ Quiet
    \/ NoneDone /\ (\E noticeThrows \in BOOLEAN : SubmitCatchSettled(1, noticeThrows)) /\ Quiet
    \/ SubmitReturn(1) /\ Quiet
    \/ ExchangeClosed /\ UNCHANGED lensVars

LookupSpec == LensInit /\ [][LookupNext]_vars

----------------------------------------------------------------------------
(* Claims about the trace lookup of Init *)

\* the Init that just completed had text to work on and so made the lookup
IsLookup == IsInit /\ exchange.input # <<>>

\* the ways in which the lookup fails
NoIdentifier == deriveResponseIdFromMessage(exchange.embeds) = Null
LookupFailed ==
    \/ NoIdentifier
    \/ exchange.fetched.kind = "network_error"
    \/ /\ exchange.fetched.kind = "response"
       /\ \/ exchange.fetched.response.status \notin 200..299
          \/ exchange.fetched.response.body.shape = "garbage"

C33_InitOpens ==
    IsLookup =>
        /\ LookupFailed => exchange.lookup.metadata = Null
        /\ ~exchange.threw
        /\ exchange.replies[1].payload = "prompt"
        /\ exchange.replies[1].execution.calls[1].outcome.ok =>
              Len(exchange.replies) = 1
        /\ sessions[ExchangeKey] # Null
        /\ Get(sessions[ExchangeKey]).context.metadata = exchange.lookup.metadata
        /\ Get(sessions[ExchangeKey]).context.responseId = exchange.lookup.responseId

\* a Submit on a session without metadata, with a lens resolved and the
\* guard free, goes on to generate
C33_SubmitGenerates ==
    LET session == sessions[<<"u1", "m1">>]
    IN  /\ submit[1].pc = "idle" /\ submit'[1].pc # "idle"
        /\ session # Null
        /\ Get(session).context.metadata = Null
        /\ LensResolved(Get(session))
        /\ ~isAlternativeLensInProgress("m1")
        => /\ submit'[1].pc = "ack"
           /\ Get(submit'[1].context).metadata = Null

\* C33: the trace lookup of Init is best-effort: without an identifier in
\* the footer, on a network error, on a non-success status and on a body
\* that is not JSON the metadata is null, Init does not reject, opens the
\* session with that metadata and answers with the lens menu; and a Submit
\* on such a session goes on to generate.
C33_BestEffortLookup == [](C33_InitOpens) /\ [][C33_SubmitGenerates]_vars

\* a generation runs on a session whose lookup failed after the identifier
\* had been read from the footer
C33_Witness ==
    /\ submit[1].pc = "gen"
    /\ Get(submit[1].context).metadata = Null
    /\ Get(submit[1].context).responseId = Some(<<"r", "1">>)

\* the lookup met a network error and the menu was delivered
C33_WitnessInit ==
    /\ IsLookup
    /\ exchange.fetched.kind = "network_error"
    /\ exchange.lookup = [responseId |-> Some(<<"r", "1">>), metadata |-> Null]
    /\ Len(exchange.replies) = 1
    /\ exchange.replies[1].execution.threw = Null
    /\ sessions[ExchangeKey] # Null

\* the read endpoint's answer for a trace that is not in the store
MissingTrace == Fetched(sendJson(404, ErrorBody("Trace not found"), {}))

\* the lookup was answered 410 with the stale envelope
AnsweredStale ==
    /\ IsLookup
    /\ exchange.fetched.kind = "response"
    /\ exchange.fetched.response.status = 410
    /\ exchange.fetched.response.body.shape = "stale"

\* C34: the lookup of Init yields a different result for a stale trace (410,
\* the metadata inside the envelope) than for a missing trace (404).
C34_StaleDiffersFromMissing ==
    AnsweredStale =>
        exchange.lookup # resolveProvenanceMetadata(exchange.embeds, MissingTrace)

\* a stale trace leaves the session without metadata, as a missing one does
C34_StaleAsMissing ==
    /\ AnsweredStale
    /\ exchange.fetched.response.body.metadata # Null
    /\ exchange.lookup = [responseId |-> Some(<<"r", "1">>), metadata |-> Null]
    /\ Get(sessions[ExchangeKey]).context.metadata = Null

----------------------------------------------------------------------------
(* Claims about the order of Submit's checks *)

\* the step starts Submit invocation h
StartsSubmit(h) == submit[h].pc = "idle" /\ submit'[h].pc # "idle"

StartedKey(h) == buildAlternativeLensSessionKey(submit'[h].user, submit'[h].msg)

C36_OrderOf(h) ==
    LET session == sessions[StartedKey(h)]
        held == isAlternativeLensInProgress(submit'[h].msg)
    IN  /\ session = Null =>
              submit'[h].answer = "session_expired"
        /\ session # Null /\ ~LensResolved(Get(session)) =>
              submit'[h].answer = "select_lens_first"
        /\ submit'[h].answer = "already_generating" =>
              session # Null /\ LensResolved(Get(session)) /\ held
        /\ session # Null /\ LensResolved(Get(session)) /\ held =>
              submit'[h].answer = "already_generating"
        /\ submit'[h].answer \in {"session_expired", "select_lens_first",
                                  "already_generating"} =>
              /\ submit'[h].pc = "done"
              /\ UNCHANGED <<sessions, alternativeLensInProgress>>
        /\ session # Null /\ LensResolved(Get(session)) /\ ~held =>
              /\ submit'[h].pc = "ack"
              /\ submit'[h].answer = "progress"
              /\ submit'[h].msg \in alternativeLensInProgress'

\* C36: Submit tests, in this order, that the session exists, that its lens
\* resolves and that the in-progress guard is free, and answers with the
\* first test that fails: without a session "session expired", without a
\* resolved lens "select a lens first", both also while a generation for the
\* message is in flight; "already generating" only with a session and a
\* resolved lens; the tests and the setting of the guard are one step, made
\* before the handler suspends for the first time.
C36_CheckOrder == [][\A h \in Handlers : StartsSubmit(h) => C36_OrderOf(h)]_vars

\* while a generation for the message holds the guard, another Submit was
\* answered "select a lens first"
C36_Witness ==
    \E g, h \in Handlers :
        /\ HoldsGuard(g)
        /\ submit[h].pc = "done"
        /\ submit[h].msg = submit[g].msg
        /\ submit[h].answer = "select_lens_first"
        /\ sessions[SubmitKey(h)] # Null

\* the same with "session expired"
C36_WitnessExpired ==
    \E g, h \in Handlers :
        /\ HoldsGuard(g)
        /\ submit[h].pc = "done"
        /\ submit[h].msg = submit[g].msg
        /\ submit[h].answer = "session_expired"

\* Submit invocation h runs its finally block in this step
SubmitFinishes(h) == submit[h].pc \in {"gen", "catch"} /\ submit'[h].pc = "done"

\* C39: the cleanup of a Submit removes only the session that this Submit
\* read: when Init ran again for the same user and message while the
\* generation was in flight, the session that Init opened is still in the map,
\* unchanged, after the Submit has finished.
C39_LaterSessionKept ==
    [][\A h \in Handlers :
          SubmitFinishes(h) /\ submit[h].reinit =>
              /\ sessions'[SubmitKey(h)] # Null
              /\ sessions'[SubmitKey(h)] = sessions[SubmitKey(h)]]_vars

\* a Submit has finished and the session that a later Init opened under its
\* key is gone
C39_LaterSessionRemoved ==
    \E h \in Handlers :
        /\ submit[h].pc = "done"
        /\ submit[h].outcome = "posted"
        /\ submit[h].reinit
        /\ sessions[SubmitKey(h)] = Null

----------------------------------------------------------------------------
(* Claims about the order of the write handler's gates *)

FirstSent == exchange.sent[1]
Consulted == exchange.limiter # Null
Authenticated == IsPost /\ Configured /\ ExactToken
SchemaValid == PostTracesRequestSchema(Written).success

\* the answer was computed from the body: the streaming guard's 413, one of
\* the 400 answers, or the store's upsert was called
BodyRead ==
    \/ exchange.upsert # Null
    \/ FirstSent.status = 400
    \/ FirstSent.status = 413 /\ ~DeclaredAboveCap

\* C37: the write handler answers with the first gate that fails, in the
\* order method (405), store (503), secret (503), token present (401), token
\* matches (403), limiter available (503), rate limit (429), declared
\* Content-Length (413), streamed size (413), body present (400), JSON (400),
\* schema (400); the limiter is consulted only for requests with the right
\* token and the body is read only for such requests that the limiter let in.
C37_GateOrder ==
    IsWrite =>
        /\ ~IsPost => FirstSent.status = 405
        /\ IsPost /\ ~deps.traceStore =>
              FirstSent = sendJson(503, ErrorBody("Trace store unavailable"), {})
        /\ IsPost /\ deps.traceStore /\ deps.traceToken = Null =>
              FirstSent = sendJson(503, ErrorBody("Trace ingestion not configured"), {})
        /\ IsPost /\ Configured /\ TokenSent = Null => FirstSent.status = 401
        /\ IsPost /\ Configured /\ TokenSent # Null /\ ~ExactToken =>
              FirstSent.status = 403
        /\ Authenticated /\ ~deps.traceWriteLimiter =>
              FirstSent = sendJson(503, ErrorBody("Trace rate limiter unavailable"), {})
        /\ Consulted <=> Authenticated /\ deps.traceWriteLimiter
        /\ Consulted /\ ~Admitted => FirstSent.status = 429
        /\ Admitted /\ DeclaredAboveCap =>
              exchange.sent = <<TooLarge>>
        /\ Admitted /\ ~DeclaredAboveCap /\ ~WithinCap => FirstSent = TooLarge
        /\ Admitted /\ ~DeclaredAboveCap /\ WithinCap /\ exchange.req.body.content.kind = "empty" =>
              FirstSent = sendJson(400, ErrorBody("Missing request body"), {})
        /\ Admitted /\ ~DeclaredAboveCap /\ WithinCap /\ exchange.req.body.content.kind = "garbage" =>
              FirstSent = sendJson(400, ErrorBody("Invalid JSON body"), {})
        /\ Admitted /\ ~DeclaredAboveCap /\ WithinCap /\ IsJson /\ ~SchemaValid =>
              FirstSent.status = 400 /\ FirstSent.body.details # Null
        /\ exchange.upsert # Null <=>
              Admitted /\ ~DeclaredAboveCap /\ WithinCap /\ IsJson /\ SchemaValid
        /\ exchange.upsert # Null => FirstSent.status \in {200, 500}
        /\ BodyRead => Authenticated /\ Admitted

\* a request with a wrong token and a body above the cap is answered 403 and
\* the limiter is not consulted
C37_Witness ==
    /\ IsWrite /\ IsPost /\ Configured
    /\ TokenSent # Null /\ ~ExactToken
    /\ deps.traceWriteLimiter
    /\ ~WithinCap
    /\ exchange.sent = <<sendJson(403, ErrorBody("Invalid trace token"), {})>>
    /\ ~Consulted

\* a request refused by the limiter whose body is not JSON is answered 429
C37_WitnessLimited ==
    /\ IsWrite /\ Authenticated /\ Consulted /\ ~Admitted
    /\ exchange.req.body.content.kind = "garbage"
    /\ FirstSent.status = 429

\* C38: every write request is answered by exactly one call of sendJson,
\* also when the streaming guard has answered 413 and destroyed the request.
C38_ExactlyOneResponse ==
    IsWrite => Len(exchange.sent) = 1

\* the streaming guard answered 413, the destroyed request raised an error
\* and the catch block called sendJson again
C38_SecondResponse ==
    /\ IsWrite /\ Admitted
    /\ ~DeclaredAboveCap /\ ~WithinCap
    /\ Statuses(exchange) = <<413, 500>>

\* the streaming guard answered 413 and the handler waits for an end of the
\* request that never comes
C38_NeverSettles ==
    /\ IsWrite /\ Admitted
    /\ exchange.sent = <<TooLarge>>
    /\ ~exchange.settled

----------------------------------------------------------------------------
(* The API transport of the web contracts: createApiTransport.requestJson *)

\* an Error with the transport's name and the normalized fields
createApiClientError(status, code, message) ==
    [name |-> "ApiClientError", status |-> status, code |-> Some(code),
     message |-> message]

\* other thrown values: an Error, a DOMException from an abort, a TypeError
\* from fetch, a string
ThrownError(name, message) ==
    [name |-> name, status |-> Null, code |-> Null, message |-> message]

\* value instanceof Error && value.name === errorName
isApiClientError(value) == value.name = "ApiClientError"

buildUrl_lenient(baseUrl, endpoint) == Some(baseUrl \o endpoint)

\* Null: the function throws
buildUrl(baseUrl, endpoint) ==
    IF endpoint = <<>> \/ Head(endpoint) # "/" THEN Null
    ELSE Some(baseUrl \o endpoint)

normalizeErrorCode(status) ==
    IF status = Null THEN "network_error"
    ELSE LET s == Get(status)
         IN  CASE s = 400 -> "bad_request"
               [] s = 401 -> "unauthorized"
               [] s = 403 -> "forbidden"
               [] s = 404 -> "not_found"
               [] s = 408 -> "timeout_error"
               [] s = 409 -> "conflict"
               [] s = 410 -> "stale_resource"
               [] s = 413 -> "payload_too_large"
               [] s = 429 -> "rate_limited"
               [] s >= 500 -> "server_error"
               [] OTHER -> "api_error"

\* a response: its status, whether its content type names JSON, and its body:
\* the expected data, an error envelope with a message, another JSON object,
\* a text that is not JSON, nothing
ApiResponse(status, json, body) == [status |-> status, json |-> json, body |-> body]

\* mutation: a body whose reading was aborted raises
readResponsePayload_raising(response, bodyAborted) ==
    IF bodyAborted THEN [type |-> "thrown", v |-> "aborted"]
    ELSE IF response.json
    THEN IF response.body \in {"text", "empty"}
         THEN [type |-> "null", v |-> "null"]
         ELSE [type |-> "object", v |-> response.body]
    ELSE IF response.body = "empty"
         THEN [type |-> "null", v |-> "null"]
         ELSE [type |-> "string", v |-> response.body]

\* response.json().catch(() => null), or the text, null when it is empty or
\* cannot be read; bodyAborted: the request was aborted while the body was read
readResponsePayload(response, bodyAborted) ==
    IF response.json
    THEN IF bodyAborted \/ response.body \in {"text", "empty"}
         THEN [type |-> "null", v |-> "null"]
         ELSE [type |-> "object", v |-> response.body]
    ELSE IF bodyAborted \/ response.body = "empty"
         THEN [type |-> "null", v |-> "null"]
         ELSE [type |-> "string", v |-> response.body]

\* the message of an error envelope, Null when there is none
parseApiErrorEnvelope(payload) ==
    IF payload.type = "object" /\ payload.v = "envelope"
    THEN Some("Trace not found") ELSE Null

\* what the caller's validator does with a payload: Null when the call has
\* none, else a result or a thrown value
validateResponse(validator, payload) ==
    CASE validator = "schema" ->
            IF payload.type = "object" /\ payload.v = "data"
            THEN [success |-> TRUE, data |-> Some("normalized"), error |-> "",
                  thrown |-> Null]
            ELSE [success |-> FALSE, data |-> Null,
                  error |-> "Expected message payload", thrown |-> Null]
      [] validator = "throws_error" ->
            [success |-> FALSE, data |-> Null, error |-> "",
             thrown |-> Some(ThrownError("Error", "validator exploded"))]
      [] validator = "throws_string" ->
            [success |-> FALSE, data |-> Null, error |-> "",
             thrown |-> Some(ThrownError("none", "string"))]
      [] validator = "throws_client_error" ->
            [success |-> FALSE, data |-> Null, error |-> "",
             thrown |-> Some(createApiClientError(Null, "aborted_error",
                                                  "Request was aborted"))]

\* the data, or the error thrown
validateApiResponsePayload(payload, status, validator) ==
    LET validationResult == validateResponse(validator, payload)
        thrown == Get(validationResult.thrown)
    IN  IF validationResult.thrown = Null
        THEN IF validationResult.success
             THEN [data |-> validationResult.data, thrown |-> Null]
             ELSE [data |-> Null,
                   thrown |-> Some(createApiClientError(Some(status), "invalid_payload",
                                                        validationResult.error))]
        ELSE IF isApiClientError(thrown)
        THEN [data |-> Null, thrown |-> Some(thrown)]
        ELSE [data |-> Null,
              thrown |-> Some(createApiClientError(
                                  Some(status), "invalid_payload",
                                  IF thrown.name = "none"
                                  THEN "Response validation failed"
                                  ELSE thrown.message))]

Settled(call, env, outcome, error, value, timer, listener) ==
    [kind |-> "request", call |-> call, env |-> env, outcome |-> outcome,
     error |-> error, value |-> value, timer |-> timer, listener |-> listener]

\* mutation: the timer is cleared only when the request succeeded
TimerAfterFinally_onSuccess(timeout, fired, succeeded) ==
    IF timeout = 0 THEN "none"
    ELSE IF fired THEN "fired"
    ELSE IF succeeded THEN "cleared" ELSE "pending"

\* the finally block: clearTimeout and removeEventListener
TimerAfterFinally(timeout, fired, succeeded) ==
    IF timeout = 0 THEN "none"
    ELSE IF fired THEN "fired" ELSE "cleared"

ListenerAfterFinally(signal) ==
    IF signal = Null THEN "none" ELSE "removed"

\* the catch block of requestJson
NormalizeThrown(error, didTimeoutAbort, signalAborted) ==
    IF isApiClientError(error) THEN error
    ELSE IF didTimeoutAbort
    THEN createApiClientError(Null, "timeout_error", "Request timed out")
    ELSE IF signalAborted
    THEN createApiClientError(Null, "aborted_error", "Request was aborted")
    ELSE IF error.name = "AbortError"
    THEN createApiClientError(Null, "aborted_error", "Request was aborted")
    ELSE createApiClientError(Null, "network_error",
                              IF error.name = "none" THEN "Network request failed"
                              ELSE error.message)

\* call: endpoint, timeoutMs, signal (Null, "fresh" or "aborted"),
\* acceptedStatusCodes, validator (Null or its behaviour).
\* env: when the timer fires and when the caller aborts ("never", during the
\* "fetch", while the "body" is read), and what fetch gives unless aborted:
\* Null (it rejects with a TypeError) or a response.
requestJson(call, env) ==
    LET url == buildUrl(<<>>, call.endpoint)
        timeout == IF call.timeoutMs > 0 THEN call.timeoutMs ELSE 0
        abortedBefore == call.signal = Some("aborted")
        didTimeoutAbort == env.timeoutFires # "never"
        signalAborted == abortedBefore \/ env.abortFires # "never"
        fetchAborted == abortedBefore \/ env.timeoutFires = "fetch"
                           \/ env.abortFires = "fetch"
        fetchThrown ==
            IF env.timeoutFires = "fetch" THEN ThrownError("none", "Request timeout")
            ELSE IF fetchAborted THEN ThrownError("AbortError", "This operation was aborted")
            ELSE ThrownError("TypeError", "fetch failed")
        response == Get(env.fetch)
        bodyAborted == env.timeoutFires = "body" \/ env.abortFires = "body"
        payload == readResponsePayload(response, bodyAborted)
        ok == response.status >= 200 /\ response.status <= 299
        isAcceptedStatus == response.status \in call.acceptedStatusCodes
        parsed == parseApiErrorEnvelope(payload)
        validated == validateApiResponsePayload(payload, response.status,
                                                Get(call.validateResponse))
        thrown ==
            IF fetchAborted \/ env.fetch = Null THEN Some(fetchThrown)
            ELSE IF ~ok /\ ~isAcceptedStatus
            THEN Some(createApiClientError(
                          Some(response.status),
                          normalizeErrorCode(Some(response.status)),
                          IF parsed # Null THEN Get(parsed)
                          ELSE "Request failed with status"))
            ELSE IF call.validateResponse = Null THEN Null
            ELSE validated.thrown
        data == IF call.validateResponse = Null THEN Some(payload.v)
                ELSE validated.data
        timer == TimerAfterFinally(timeout, didTimeoutAbort, thrown = Null)
        listener == ListenerAfterFinally(call.signal)
    IN  IF url = Null
        THEN Settled(call, env, "rejected",
                     Some(ThrownError("Error", "API endpoint must start with /")),
                     Null, "none", "none")
        ELSE IF thrown # Null
        THEN Settled(call, env, "rejected",
                     Some(NormalizeThrown(Get(thrown), didTimeoutAbort, signalAborted)),
                     Null, timer, listener)
        ELSE Settled(call, env, "resolved", Null,
                     Some([status |-> response.status, data |-> data]),
                     timer, listener)

----------------------------------------------------------------------------
(* Specification of the transport: calls with every option against every   *)
(* behaviour of fetch, of the timer and of the caller's abort signal.       *)

Endpoints == {<<"/", "api", "/", "example">>, <<"api", "/", "example">>}

ApiResponses ==
    {ApiResponse(200, TRUE, "data"), ApiResponse(200, TRUE, "other"),
     ApiResponse(200, TRUE, "text"), ApiResponse(200, FALSE, "text"),
     ApiResponse(204, TRUE, "empty"),
     ApiResponse(404, TRUE, "envelope"), ApiResponse(410, TRUE, "envelope"),
     ApiResponse(418, FALSE, "text"), ApiResponse(502, FALSE, "text")}

ApiCalls ==
    [endpoint : Endpoints, timeoutMs : {0, 5},
     signal : {Null, Some("fresh"), Some("aborted")},
     acceptedStatusCodes : {{}, {404}},
     validateResponse : {Null, Some("schema"), Some("throws_error"),
                         Some("throws_string"), Some("throws_client_error")}]

\* the timer fires only when it was set and the signal was not aborted from
\* the start, the caller aborts only a signal it handed over, and not both
\* in one call; a fetch that was aborted gives no response
FetchEnvs(call) ==
    {env \in [timeoutFires : {"never", "fetch", "body"},
              abortFires : {"never", "fetch", "body"},
              fetch : {Null} \cup {Some(r) : r \in ApiResponses}] :
        /\ env.timeoutFires # "never" =>
              call.timeoutMs > 0 /\ call.signal # Some("aborted")
        /\ env.abortFires # "never" => call.signal = Some("fresh")
        /\ env.timeoutFires = "never" \/ env.abortFires = "never"
        /\ call.signal = Some("aborted") \/ "fetch" \in {env.timeoutFires, env.abortFires}
              => env.fetch = Null /\ "body" \notin {env.timeoutFires, env.abortFires}
        /\ "body" \in {env.timeoutFires, env.abortFires} => env.fetch # Null
        /\ buildUrl(<<>>, call.endpoint) = Null =>
              env = [timeoutFires |-> "never", abortFires |-> "never", fetch |-> Null]}

RequestStep ==
    /\ Idle
    /\ \E call \in ApiCalls :
          \E env \in FetchEnvs(call) :
              exchange' = requestJson(call, env)
    /\ UNCHANGED <<deps, records, now, staleSeen>>

TransportNext ==
    \/ RequestStep /\ UNCHANGED lensVars
    \/ ExchangeClosed /\ UNCHANGED lensVars

TransportSpec == LensInit /\ [][TransportNext]_vars

----------------------------------------------------------------------------
(* Claims about the transport *)

IsRequest == exchange.kind = "request"
RequestRejected == exchange.outcome = "rejected"
RequestError == Get(exchange.error)

WellFormedEndpoint == Head(exchange.call.endpoint) = "/"
TimedOut == exchange.env.timeoutFires # "never"
CallerAborted ==
    exchange.call.signal = Some("aborted") \/ exchange.env.abortFires # "never"
DuringBody == "body" \in {exchange.env.timeoutFires, exchange.env.abortFires}

\* fetch gave a response
Responded ==
    /\ WellFormedEndpoint
    /\ exchange.env.fetch # Null
    /\ exchange.call.signal # Some("aborted")
    /\ "fetch" \notin {exchange.env.timeoutFires, exchange.env.abortFires}
ResponseStatus == Get(exchange.env.fetch).status
RefusedStatus ==
    /\ Responded
    /\ ResponseStatus \notin 200..299
    /\ ResponseStatus \notin exchange.call.acceptedStatusCodes
Validated ==
    Responded /\ ~RefusedStatus /\ exchange.call.validateResponse # Null
ValidatorThrows ==
    /\ Validated
    /\ Get(exchange.call.validateResponse)
          \in {"throws_error", "throws_string", "throws_client_error"}

RejectedWith(code, status) ==
    /\ RequestRejected
    /\ isApiClientError(RequestError)
    /\ RequestError.code = Some(code)
    /\ RequestError.status = status

C35_Codes ==
    /\ RequestRejected => isApiClientError(RequestError) /\ RequestError.code # Null
    /\ TimedOut => RejectedWith("timeout_error", Null)
    /\ CallerAborted => RejectedWith("aborted_error", Null)
    /\ RefusedStatus /\ ~TimedOut /\ ~CallerAborted =>
          RejectedWith(normalizeErrorCode(Some(ResponseStatus)), Some(ResponseStatus))
    /\ ValidatorThrows /\ ~TimedOut /\ ~CallerAborted =>
          /\ RejectedWith("invalid_payload", Some(ResponseStatus))
          /\ Get(exchange.call.validateResponse) = "throws_error" =>
                RequestError.message = "validator exploded"
    /\ Validated /\ ~ValidatorThrows /\ ~TimedOut /\ ~CallerAborted =>
          \/ exchange.outcome = "resolved"
          \/ /\ RejectedWith("invalid_payload", Some(ResponseStatus))
             /\ RequestError.message = "Expected message payload"
    /\ WellFormedEndpoint /\ exchange.env.fetch = Null /\ ~TimedOut /\ ~CallerAborted =>
          RejectedWith("network_error", Null)
    /\ exchange.timer # "pending"
    /\ exchange.listener # "attached"

\* C35: requestJson rejects only with a normalized client error carrying one
\* code: invalid_payload with the response status and the validator's
\* message when the validator reports a failure or throws, timeout_error on
\* a timeout, aborted_error on an abort by the caller, the code mapped from
\* the status on a non-2xx status that is not accepted, network_error on
\* any other transport failure; and the timer and the abort listener are
\* released on every path.
C35_NormalizedErrors == IsRequest => C35_Codes

\* the same for calls with an endpoint that starts with "/", whose timer
\* and caller do not interrupt the reading of the body and whose validator
\* throws no client error of its own
C35_NormalizedWithinFetch ==
    /\ IsRequest /\ WellFormedEndpoint /\ ~DuringBody
    /\ exchange.call.validateResponse # Some("throws_client_error")
    => C35_Codes

\* an endpoint without the leading "/" rejects with the plain Error of buildUrl
C35_RawRejection ==
    /\ IsRequest /\ ~WellFormedEndpoint
    /\ RequestRejected
    /\ ~isApiClientError(RequestError)
    /\ RequestError.code = Null

\* the timer fired while the body was read and the call resolved with no data
C35_TimeoutSwallowed ==
    /\ IsRequest
    /\ exchange.env.timeoutFires = "body"
    /\ exchange.outcome = "resolved"
    /\ Get(exchange.value).data = Some("null")
    /\ exchange.timer = "fired"

====
